---- MODULE Spec2Model ----
(***************************************************************************)
(* SheetGPT: the Index page (held dataset), FileUpload.handleFile, the     *)
(* DataPreview table state and the QueryInterface query dispatcher.        *)
(* JavaScript strings are TLA+ strings; a record (row) is the sequence of  *)
(* its <<key, value>> pairs in Object.keys order; a dataset is a sequence  *)
(* of rows.  Six specifications share the variables: Spec (the Index page  *)
(* with FileUpload, from page load), SpecPreview (the DataPreview table    *)
(* over a held dataset), SpecQuery (the query-answering functions applied  *)
(* to drawn queries and datasets), SpecAnalysis (the CSV parser, the       *)
(* correlation, DataSummary and Dashboard computations), SpecAsk (a        *)
(* mounted QueryInterface: text box, sample queries, Send and its delayed  *)
(* answer) and SpecAskLive (SpecAsk with the timer of a sent query firing).*)
(***************************************************************************)
EXTENDS Integers, Sequences, FiniteSets, TLC

VARIABLES
    uploadedData,   \* Index: useState(null); NoData or the array of rows
    fileName,       \* Index: useState('')
    isProcessing,   \* Index: useState(false)
    handling,       \* FileUpload: handleFile calls in flight
    delivering,     \* Index: handleFileUpload calls waiting on their timer
    uploadProgress, \* FileUpload: useState(0)
    intervals,      \* FileUpload: live setInterval timers of the mounted instance
    alerts,         \* number of alert() dialogs shown so far
    toasts,         \* Index: number of toast() notifications shown so far
    started,        \* number of handleFile calls started so far
    currentPage,    \* DataPreview: useState(1)
    searchTerm,     \* DataPreview: useState('')
    sortColumn,     \* DataPreview: useState('')
    sortDirection,  \* DataPreview: useState('asc')
    showFilterDialog, \* DataPreview: useState(false)
    filters,        \* DataPreview: useState([])
    newFilter,      \* DataPreview: the filter being edited in the dialog
    query,          \* QueryInterface: the text box
    response,       \* QueryInterface: useState(''), the stored response
    isLoading,      \* QueryInterface: useState(false)
    pending,        \* QueryInterface: handleQuery calls waiting on their timer
    rng,            \* the value the next Math.random() call returns
    lastCall,       \* the latest call of a query-answering function
    prevCall        \* the call before it

vars == <<uploadedData, fileName, isProcessing, handling, delivering,
          uploadProgress, intervals, alerts, toasts, started, currentPage,
          searchTerm, sortColumn, sortDirection, showFilterDialog, filters,
          newFilter, query, response, isLoading, pending, rng, lastCall,
          prevCall>>

(***************************************************************************)
(* JavaScript strings                                                      *)
(***************************************************************************)
UpperToLower ==
    [A |-> "a", B |-> "b", C |-> "c", D |-> "d", E |-> "e", F |-> "f",
     G |-> "g", H |-> "h", I |-> "i", J |-> "j", K |-> "k", L |-> "l",
     M |-> "m", N |-> "n", O |-> "o", P |-> "p", Q |-> "q", R |-> "r",
     S |-> "s", T |-> "t", U |-> "u", V |-> "v", W |-> "w", X |-> "x",
     Y |-> "y", Z |-> "z"]

LowerChar(c) == IF c \in DOMAIN UpperToLower THEN UpperToLower[c] ELSE c

RECURSIVE toLowerCase(_)
toLowerCase(s) ==
    IF s = "" THEN "" ELSE LowerChar(Head(s)) \o toLowerCase(Tail(s))

\* String.prototype.includes
includes(s, t) ==
    \E i \in 1..(Len(s) - Len(t) + 1) : SubSeq(s, i, i + Len(t) - 1) = t

\* String.prototype.endsWith
endsWith(s, t) ==
    Len(t) <= Len(s) /\ SubSeq(s, Len(s) - Len(t) + 1, Len(s)) = t

\* String.prototype.startsWith
startsWith(s, t) == Len(t) <= Len(s) /\ SubSeq(s, 1, Len(t)) = t

\* String.prototype.substring(0, n)
substring0(s, n) == IF Len(s) <= n THEN s ELSE SubSeq(s, 1, n)

\* the white space String.prototype.trim removes
IsSpace(c) == c \in {" ", "\t", "\n", "\r"}

RECURSIVE trimStart(_)
trimStart(s) ==
    IF s # "" /\ IsSpace(SubSeq(s, 1, 1)) THEN trimStart(Tail(s)) ELSE s

RECURSIVE trimEnd(_)
trimEnd(s) ==
    IF s # "" /\ IsSpace(SubSeq(s, Len(s), Len(s)))
    THEN trimEnd(SubSeq(s, 1, Len(s) - 1))
    ELSE s

\* String.prototype.trim
trim(s) == trimEnd(trimStart(s))

\* String.prototype.split(sep) for a one-character separator
RECURSIVE split(_, _)
split(s, sep) ==
    IF \E i \in 1..Len(s) : SubSeq(s, i, i) = sep
    THEN LET i == CHOOSE j \in 1..Len(s) :
                    /\ SubSeq(s, j, j) = sep
                    /\ \A k \in 1..(j - 1) : SubSeq(s, k, k) # sep
         IN  <<SubSeq(s, 1, i - 1)>> \o split(SubSeq(s, i + 1, Len(s)), sep)
    ELSE <<s>>

\* String.prototype.replace(/"/g, '')
RECURSIVE removeQuotes(_)
removeQuotes(s) ==
    IF s = "" THEN ""
    ELSE IF SubSeq(s, 1, 1) = "\"" THEN removeQuotes(Tail(s))
    ELSE SubSeq(s, 1, 1) \o removeQuotes(Tail(s))

\* String.prototype.split(' '): the words between single spaces
RECURSIVE splitSpace(_)
splitSpace(s) ==
    IF \E i \in 1..Len(s) : SubSeq(s, i, i) = " "
    THEN LET i == CHOOSE j \in 1..Len(s) :
                    /\ SubSeq(s, j, j) = " "
                    /\ \A k \in 1..(j - 1) : SubSeq(s, k, k) # " "
         IN  <<SubSeq(s, 1, i - 1)>> \o splitSpace(SubSeq(s, i + 1, Len(s)))
    ELSE <<s>>

\* Array.prototype.indexOf, 1-based; 0 stands for JavaScript's -1
indexOf(arr, x) ==
    IF \E i \in 1..Len(arr) : arr[i] = x
    THEN CHOOSE i \in 1..Len(arr) :
            arr[i] = x /\ \A k \in 1..(i - 1) : arr[k] # x
    ELSE 0

\* Array.prototype.join
RECURSIVE join(_, _)
join(arr, sep) ==
    IF Len(arr) = 0 THEN ""
    ELSE IF Len(arr) = 1 THEN arr[1]
    ELSE arr[1] \o sep \o join(Tail(arr), sep)

DigitChars == <<"0", "1", "2", "3", "4", "5", "6", "7", "8", "9">>

IsDigit(c) == \E d \in 1..10 : DigitChars[d] = c

DigitVal(c) == (CHOOSE d \in 1..10 : DigitChars[d] = c) - 1

AllDigits(s) == s # "" /\ \A i \in 1..Len(s) : IsDigit(SubSeq(s, i, i))

\* the value of a run of decimal digits
RECURSIVE DigitsVal(_)
DigitsVal(s) ==
    IF s = "" THEN 0
    ELSE 10 * DigitsVal(SubSeq(s, 1, Len(s) - 1))
            + DigitVal(SubSeq(s, Len(s), Len(s)))

\* the decimal digits of a natural number
RECURSIVE NatToStr(_)
NatToStr(n) ==
    IF n < 10 THEN DigitChars[n + 1]
    ELSE NatToStr(n \div 10) \o DigitChars[(n % 10) + 1]

\* String(n) of an integer
IntToStr(n) == IF n < 0 THEN "-" \o NatToStr(-n) ELSE NatToStr(n)

\* lowerQuery.match(/\d+/): the first maximal run of digits, "" when none
firstDigits(s) ==
    IF \E i \in 1..Len(s) : IsDigit(SubSeq(s, i, i))
    THEN LET a == CHOOSE i \in 1..Len(s) :
                    /\ IsDigit(SubSeq(s, i, i))
                    /\ \A k \in 1..(i - 1) : ~IsDigit(SubSeq(s, k, k))
             b == CHOOSE j \in a..Len(s) :
                    /\ \A k \in a..j : IsDigit(SubSeq(s, k, k))
                    /\ (j = Len(s) \/ ~IsDigit(SubSeq(s, j + 1, j + 1)))
         IN  SubSeq(s, a, b)
    ELSE ""

(***************************************************************************)
(* JavaScript values held by the cells of a record                         *)
(***************************************************************************)
Num(n) == [t |-> "num", n |-> n, s |-> ""]
Str(s) == [t |-> "str", n |-> 0, s |-> s]
Null == [t |-> "null", n |-> 0, s |-> ""]
Undefined == [t |-> "undef", n |-> 0, s |-> ""]

\* a JavaScript number: NaN or an integer
NaN == [nan |-> TRUE, n |-> 0]
Fin(n) == [nan |-> FALSE, n |-> n]

\* Number(s) of a string: whitespace is trimmed, '' is 0, an optionally
\* signed run of digits is its value, anything else is NaN
NumberOfString(s) ==
    LET t == trim(s)
    IN  IF t = "" THEN Fin(0)
        ELSE IF AllDigits(t) THEN Fin(DigitsVal(t))
        ELSE IF Head(t) = "-" /\ AllDigits(Tail(t)) THEN Fin(-DigitsVal(Tail(t)))
        ELSE IF Head(t) = "+" /\ AllDigits(Tail(t)) THEN Fin(DigitsVal(Tail(t)))
        ELSE NaN

\* Number(v)
Number(v) ==
    CASE v.t = "num" -> Fin(v.n)
      [] v.t = "str" -> NumberOfString(v.s)
      [] v.t = "null" -> Fin(0)
      [] OTHER -> NaN

\* String(v), also what a template literal ${v} prints
String(v) ==
    CASE v.t = "num" -> IntToStr(v.n)
      [] v.t = "str" -> v.s
      [] v.t = "null" -> "null"
      [] OTHER -> "undefined"

\* typeof v === 'number' && !isNaN(v)
isTypeofNumber(v) == v.t = "num"

\* a row built from its keys and values, in Object.keys order
Row(keys, vals) == [i \in 1..Len(keys) |-> [k |-> keys[i], v |-> vals[i]]]

\* Object.keys(row)
ObjectKeys(row) == [i \in 1..Len(row) |-> row[i].k]

\* row[col]: undefined for an absent key
Get(row, col) ==
    IF \E i \in 1..Len(row) : row[i].k = col
    THEN row[CHOOSE i \in 1..Len(row) : row[i].k = col].v
    ELSE Undefined

\* JSON.stringify(v) of a cell value
JSONvalue(v) ==
    CASE v.t = "num" -> IntToStr(v.n)
      [] v.t = "str" -> "\"" \o v.s \o "\""
      [] OTHER -> "null"

\* JSON.stringify(row)
JSONstringify(row) ==
    "{" \o join([i \in 1..Len(row) |->
                    "\"" \o row[i].k \o "\":" \o JSONvalue(row[i].v)], ",")
        \o "}"

(***************************************************************************)
(* Arrays.  `shared` tells whether the array object is the dataset object  *)
(* itself (the array stored by Index and passed as the `data` prop): an    *)
(* in-place operation on a shared array changes the dataset.               *)
(***************************************************************************)
NullData == [isNull |-> TRUE, rows |-> <<>>]
Data(rows) == [isNull |-> FALSE, rows |-> rows]

\* the `data` prop seen as an array object
DataArray(data) == [shared |-> TRUE, elems |-> data.rows]

\* [...arr]: a fresh array with the same elements
SpreadCopy(arr) == [shared |-> FALSE, elems |-> arr.elems]

\* arr.filter(...): always a fresh array, holding the elements kept
ArrayFilter(kept) == [shared |-> FALSE, elems |-> kept]

\* index i put into indices already ordered by key: behind every index
\* whose key is not greater
RECURSIVE insertIndex(_, _, _)
insertIndex(order, i, keys) ==
    IF order = <<>> THEN <<i>>
    ELSE LET last == order[Len(order)]
         IN  IF keys[last] <= keys[i] THEN Append(order, i)
             ELSE Append(insertIndex(SubSeq(order, 1, Len(order) - 1), i, keys), last)

RECURSIVE orderOfFirst(_, _)
orderOfFirst(n, keys) ==
    IF n = 0 THEN <<>> ELSE insertIndex(orderOfFirst(n - 1, keys), n, keys)

\* the stable order of indices 1..Len(keys) by ascending integer key
StableOrder(keys) == orderOfFirst(Len(keys), keys)

\* arr.sort(cmp) for a comparator that orders by an integer key: stable,
\* in place (the result is the same array object)
ArraySortByKey(arr, keys) ==
    LET order == StableOrder(keys)
    IN  [shared |-> arr.shared,
         elems |-> [p \in 1..Len(arr.elems) |-> arr.elems[order[p]]]]

\* arr.slice(0, n): a fresh array
ArraySlice0(arr, n) ==
    [shared |-> FALSE,
     elems |-> IF Len(arr.elems) <= n THEN arr.elems ELSE SubSeq(arr.elems, 1, n)]

\* the dataset's rows once an operation has produced array `arr`
RowsAfter(arr, data) == IF arr.shared THEN Data(arr.elems) ELSE data

RECURSIVE SumSeq(_)
SumSeq(xs) == IF Len(xs) = 0 THEN 0 ELSE xs[1] + SumSeq(Tail(xs))

\* a / n rounded to the nearest integer, halves away from zero (n > 0)
RoundDiv(a, n) ==
    IF a >= 0 THEN (2 * a + n) \div (2 * n) ELSE -((2 * (-a) + n) \div (2 * n))

(***************************************************************************)
(* QueryInterface (the processQuery version)                               *)
(***************************************************************************)
\* Object.keys(data[0])
columnsOf(data) == ObjectKeys(data.rows[1])

\* !isNaN(Number(row[col])) && row[col] !== null && row[col] !== ''
isNumericCell(row, col) ==
    LET v == Get(row, col)
    IN  /\ ~Number(v).nan
        /\ v.t # "null"
        /\ ~(v.t = "str" /\ v.s = "")

\* columns.filter(col => data.some(row => <numeric cell>))
numericColumnsOf(data) ==
    SelectSeq(columnsOf(data),
              LAMBDA col : \E i \in 1..Len(data.rows) : isNumericCell(data.rows[i], col))

\* lowerQuery.includes(col.toLowerCase())
mentions(lowerQuery, col) == includes(lowerQuery, toLowerCase(col))

\* `for (const col of cols) if (lowerQuery.includes(...))`: the index of the
\* first column the loop stops at, 0 when it runs to the end
firstMentioned(cols, lowerQuery) ==
    IF \E i \in 1..Len(cols) : mentions(lowerQuery, cols[i])
    THEN CHOOSE i \in 1..Len(cols) :
            /\ mentions(lowerQuery, cols[i])
            /\ \A k \in 1..(i - 1) : ~mentions(lowerQuery, cols[k])
    ELSE 0

\* data.map(row => Number(row[col])).filter(val => !isNaN(val))
numberValues(data, col) ==
    LET nums == [i \in 1..Len(data.rows) |-> Number(Get(data.rows[i], col))]
        kept == SelectSeq(nums, LAMBDA x : ~x.nan)
    IN  [i \in 1..Len(kept) |-> kept[i].n]

\* data.map(row => ({value: Number(row[col]), row})).filter(!isNaN(value))
valueItems(data, col) ==
    SelectSeq([i \in 1..Len(data.rows) |->
                  [value |-> Number(Get(data.rows[i], col)), row |-> data.rows[i]]],
              LAMBDA item : ~item.value.nan)

\* values.reduce((max, cur) => cur.value > max.value ? cur : max)
RECURSIVE reduceMax(_, _)
reduceMax(items, acc) ==
    IF Len(items) = 0 THEN acc
    ELSE reduceMax(Tail(items),
                   IF items[1].value.n > acc.value.n THEN items[1] ELSE acc)

\* values.reduce((min, cur) => cur.value < min.value ? cur : min)
RECURSIVE reduceMin(_, _)
reduceMin(items, acc) ==
    IF Len(items) = 0 THEN acc
    ELSE reduceMin(Tail(items),
                   IF items[1].value.n < acc.value.n THEN items[1] ELSE acc)

\* a faulty variant of calculateCorrelation: the quotient is taken whatever
\* the denominator is
calculateCorrelation_unguarded(col1, col2) ==
    LET data == uploadedData
        zero == [zero |-> TRUE, num |-> 0, sq1 |-> 0, sq2 |-> 0]
    IN  IF data.isNull \/ Len(data.rows) = 0 THEN zero
        ELSE
        LET all == [i \in 1..Len(data.rows) |->
                      [val1 |-> Get(data.rows[i], col1), val2 |-> Get(data.rows[i], col2)]]
            pairs == SelectSeq(all, LAMBDA p :
                        /\ p.val1.t \notin {"null", "undef"}
                        /\ p.val2.t \notin {"null", "undef"}
                        /\ ~Number(p.val1).nan
                        /\ ~Number(p.val2).nan)
        IN  IF Len(pairs) < 2 THEN zero
            ELSE
            LET n == Len(pairs)
                values1 == [i \in 1..n |-> Number(pairs[i].val1).n]
                values2 == [i \in 1..n |-> Number(pairs[i].val2).n]
                sum1 == SumSeq(values1)
                sum2 == SumSeq(values2)
            IN  [zero |-> FALSE,
                 num |-> SumSeq([i \in 1..n |->
                          (n * values1[i] - sum1) * (n * values2[i] - sum2)]),
                 sq1 |-> SumSeq([i \in 1..n |->
                          (n * values1[i] - sum1) * (n * values1[i] - sum1)]),
                 sq2 |-> SumSeq([i \in 1..n |->
                          (n * values2[i] - sum2) * (n * values2[i] - sum2)])]

\* calculateCorrelation reads the component's `data` prop, not an argument.
\* With n valid pairs the sums are kept scaled by n*n so that they stay
\* integers: num = n*n*numerator, sq1 = n*n*sum1Sq, sq2 = n*n*sum2Sq.
calculateCorrelation(col1, col2) ==
    LET data == uploadedData
        zero == [zero |-> TRUE, num |-> 0, sq1 |-> 0, sq2 |-> 0]
    IN  IF data.isNull \/ Len(data.rows) = 0 THEN zero
        ELSE
        LET all == [i \in 1..Len(data.rows) |->
                      [val1 |-> Get(data.rows[i], col1), val2 |-> Get(data.rows[i], col2)]]
            pairs == SelectSeq(all, LAMBDA p :
                        /\ p.val1.t \notin {"null", "undef"}
                        /\ p.val2.t \notin {"null", "undef"}
                        /\ ~Number(p.val1).nan
                        /\ ~Number(p.val2).nan)
        IN  IF Len(pairs) < 2 THEN zero
            ELSE
            LET n == Len(pairs)
                values1 == [i \in 1..n |-> Number(pairs[i].val1).n]
                values2 == [i \in 1..n |-> Number(pairs[i].val2).n]
                sum1 == SumSeq(values1)
                sum2 == SumSeq(values2)
                num == SumSeq([i \in 1..n |->
                          (n * values1[i] - sum1) * (n * values2[i] - sum2)])
                sq1 == SumSeq([i \in 1..n |->
                          (n * values1[i] - sum1) * (n * values1[i] - sum1)])
                sq2 == SumSeq([i \in 1..n |->
                          (n * values2[i] - sum2) * (n * values2[i] - sum2)])
            IN  IF sq1 = 0 \/ sq2 = 0 THEN zero
                ELSE [zero |-> FALSE, num |-> num, sq1 |-> sq1, sq2 |-> sq2]

\* floor(a * 10^digits / den) by long division (a >= 0, den > 0)
RECURSIVE scaledQuotient(_, _, _)
scaledQuotient(a, den, digits) ==
    IF digits = 0 THEN a \div den
    ELSE LET rest == scaledQuotient((a % den) * 10, den, digits - 1)
             RECURSIVE pow10(_)
             pow10(d) == IF d = 0 THEN 1 ELSE 10 * pow10(d - 1)
         IN  (a \div den) * pow10(digits) + rest

\* correlation.toFixed(3), in thousandths: num / sqrt(sq1 * sq2) rounded to
\* the nearest thousandth m, i.e. (2m - 1)^2 <= 4 * 10^6 * num^2 / (sq1 * sq2)
toFixed3(c) ==
    IF c.zero THEN 0
    ELSE LET f == scaledQuotient(4 * c.num * c.num, c.sq1 * c.sq2, 6)
             k == CHOOSE m \in 0..1000 :
                    /\ (m = 0 \/ (2 * m - 1) * (2 * m - 1) <= f)
                    /\ (m = 1000 \/ (2 * m + 1) * (2 * m + 1) > f)
         IN  IF c.num < 0 THEN -k ELSE k

\* [...data].filter(<numeric cell>).sort(by Number(row[col])): the array the
\* top/bottom handler sorts, descending for 'top' and ascending otherwise
topBottomSortedArray(data, col, isTop) ==
    LET filtered == ArrayFilter(SelectSeq(SpreadCopy(DataArray(data)).elems,
                                          LAMBDA row : isNumericCell(row, col)))
    IN  ArraySortByKey(filtered,
            [i \in 1..Len(filtered.elems) |->
                IF isTop THEN -Number(Get(filtered.elems[i], col)).n
                ELSE Number(Get(filtered.elems[i], col)).n])

\* a faulty variant of topBottomSorted: the slice is taken before the sort
topBottomSorted_sliceFirst(data, col, isTop, count) ==
    LET sliced == ArraySlice0(
                    ArrayFilter(SelectSeq(SpreadCopy(DataArray(data)).elems,
                                          LAMBDA row : isNumericCell(row, col))),
                    count)
    IN  ArraySortByKey(sliced,
            [i \in 1..Len(sliced.elems) |->
                IF isTop THEN -Number(Get(sliced.elems[i], col)).n
                ELSE Number(Get(sliced.elems[i], col)).n])

\* ... .slice(0, count): the rows the top/bottom handler lists
topBottomSorted(data, col, isTop, count) ==
    ArraySlice0(topBottomSortedArray(data, col, isTop), count)

\* one line of the top/bottom listing:
\* `${index + 1}. ${row[col]} (${first two "key: value" pairs})`
topBottomEntry(row, index, col) ==
    [index |-> index,
     value |-> String(Get(row, col)),
     pairs |-> join([i \in 1..(IF Len(row) < 2 THEN Len(row) ELSE 2) |->
                        row[i].k \o ": " \o String(row[i].v)], ", ")]

NoDataMessage ==
    [kind |-> "noData",
     text |-> "No data available to analyze. Please upload a dataset first."]

\* a handler that returns nothing: control reaches the next `if`
FallThrough == [kind |-> "fallThrough"]

\* A response is the template that produced it (kind) with the values that
\* fill the template's holes.

\* `The average ${col} is ${average.toLocaleString(maximumFractionDigits: 2)}.`
averageHandler(lowerQuery, data) ==
    LET numericColumns == numericColumnsOf(data)
        hit == firstMentioned(numericColumns, lowerQuery)
    IN  IF (includes(lowerQuery, "average") \/ includes(lowerQuery, "mean")) /\ hit # 0
        THEN LET col == numericColumns[hit]
                 values == numberValues(data, col)
             IN  [kind |-> "average", col |-> col,
                  \* in hundredths
                  average |-> RoundDiv(100 * SumSeq(values), Len(values))]
        ELSE FallThrough

\* a faulty variant of countHandler: without a column and a word after 'by' it returns
\* nothing instead of the total
countHandler_fallsThrough(lowerQuery, data) ==
    LET columns == columnsOf(data)
        hit == firstMentioned(columns, lowerQuery)
        words == splitSpace(lowerQuery)
        byIndex == indexOf(words, "by")
    IN  IF (includes(lowerQuery, "how many") \/ includes(lowerQuery, "count"))
           /\ hit # 0 /\ byIndex # 0 /\ byIndex < Len(words)
        THEN LET col == columns[hit]
                 searchValue == words[byIndex + 1]
                 matches == SelectSeq(data.rows, LAMBDA row :
                     includes(toLowerCase(String(Get(row, col))), searchValue))
             IN  [kind |-> "countMatches", n |-> Len(matches),
                  col |-> col, searchValue |-> searchValue]
        ELSE FallThrough

\* `There are ${matches.length} entries where ${col} contains "${searchValue}".`
\* or `The dataset contains ${data.length} total records.`
countHandler(lowerQuery, data) ==
    LET columns == columnsOf(data)
        hit == firstMentioned(columns, lowerQuery)
        words == splitSpace(lowerQuery)
        byIndex == indexOf(words, "by")
    IN  IF includes(lowerQuery, "how many") \/ includes(lowerQuery, "count")
        THEN IF hit # 0 /\ byIndex # 0 /\ byIndex < Len(words)
             THEN LET col == columns[hit]
                      searchValue == words[byIndex + 1]
                      matches == SelectSeq(data.rows, LAMBDA row :
                          includes(toLowerCase(String(Get(row, col))), searchValue))
                  IN  [kind |-> "countMatches", n |-> Len(matches),
                       col |-> col, searchValue |-> searchValue]
             ELSE [kind |-> "countTotal", n |-> Len(data.rows)]
        ELSE FallThrough

\* `The highest ${col} is ${maxItem.value.toLocaleString()} found in
\*  ${JSON.stringify(maxItem.row).substring(0, 100)}...`
highestHandler(lowerQuery, data) ==
    LET numericColumns == numericColumnsOf(data)
        hit == firstMentioned(numericColumns, lowerQuery)
    IN  IF (includes(lowerQuery, "highest") \/ includes(lowerQuery, "maximum")
                \/ includes(lowerQuery, "max"))
           /\ hit # 0
        THEN LET col == numericColumns[hit]
                 values == valueItems(data, col)
                 maxItem == reduceMax(Tail(values), values[1])
             IN  [kind |-> "highest", col |-> col, value |-> maxItem.value.n,
                  found |-> substring0(JSONstringify(maxItem.row), 100)]
        ELSE FallThrough

\* `The lowest ${col} is ${minItem.value.toLocaleString()} found in ...`
lowestHandler(lowerQuery, data) ==
    LET numericColumns == numericColumnsOf(data)
        hit == firstMentioned(numericColumns, lowerQuery)
    IN  IF (includes(lowerQuery, "lowest") \/ includes(lowerQuery, "minimum")
                \/ includes(lowerQuery, "min"))
           /\ hit # 0
        THEN LET col == numericColumns[hit]
                 values == valueItems(data, col)
                 minItem == reduceMin(Tail(values), values[1])
             IN  [kind |-> "lowest", col |-> col, value |-> minItem.value.n,
                  found |-> substring0(JSONstringify(minItem.row), 100)]
        ELSE FallThrough

\* a faulty variant of correlationHandler: with fewer than two columns named it
\* correlates the first two numeric columns
correlationHandler_defaultsToFirstTwo(lowerQuery, data) ==
    LET numericColumns == numericColumnsOf(data)
        mentionedCols == SelectSeq(numericColumns, LAMBDA c : mentions(lowerQuery, c))
        chosen == IF Len(mentionedCols) >= 2 THEN mentionedCols ELSE numericColumns
    IN  IF (includes(lowerQuery, "correlation") \/ includes(lowerQuery, "correlate"))
           /\ Len(numericColumns) >= 2
        THEN [kind |-> "correlation", col1 |-> chosen[1], col2 |-> chosen[2],
              correlation |-> toFixed3(calculateCorrelation(chosen[1], chosen[2]))]
        ELSE FallThrough

\* `The correlation between ${c1} and ${c2} is ${correlation.toFixed(3)}.` or
\* "Please specify which two columns you'd like to see the correlation for."
correlationHandler(lowerQuery, data) ==
    LET numericColumns == numericColumnsOf(data)
        mentionedCols == SelectSeq(numericColumns, LAMBDA c : mentions(lowerQuery, c))
    IN  IF (includes(lowerQuery, "correlation") \/ includes(lowerQuery, "correlate"))
           /\ Len(numericColumns) >= 2
        THEN IF Len(mentionedCols) >= 2
             THEN [kind |-> "correlation", col1 |-> mentionedCols[1],
                   col2 |-> mentionedCols[2],
                   correlation |-> toFixed3(
                       calculateCorrelation(mentionedCols[1], mentionedCols[2]))]
             ELSE [kind |-> "specifyColumns"]
        ELSE FallThrough

\* `Here are the ${isTop ? 'top' : 'bottom'} ${count} entries by ${col}:` and
\* the listing; count is parseInt of the first run of digits, 5 without one
topBottomHandler(lowerQuery, data) ==
    LET isTop == includes(lowerQuery, "top")
        numberMatch == firstDigits(lowerQuery)
        count == IF numberMatch # "" THEN DigitsVal(numberMatch) ELSE 5
        numericColumns == numericColumnsOf(data)
        hit == firstMentioned(numericColumns, lowerQuery)
    IN  IF (isTop \/ includes(lowerQuery, "bottom")) /\ hit # 0
        THEN LET col == numericColumns[hit]
                 sorted == topBottomSorted(data, col, isTop, count).elems
             IN  [kind |-> "topBottom", isTop |-> isTop, count |-> count,
                  col |-> col,
                  results |-> [i \in 1..Len(sorted) |->
                                  topBottomEntry(sorted[i], i, col)]]
        ELSE FallThrough

\* `I understand you're asking about "${query}". Based on your dataset with
\*  ${data.length} records and columns like ${columns.slice(0, 3).join(', ')}`
defaultResponse(q, data) ==
    [kind |-> "default", query |-> q, n |-> Len(data.rows),
     columns |-> join(ArraySlice0([shared |-> FALSE, elems |-> columnsOf(data)], 3).elems,
                      ", ")]

\* the first response a sequence of handler results holds, `last` without one
firstAnswer(results, last) ==
    IF \E i \in 1..Len(results) : results[i] # FallThrough
    THEN results[CHOOSE i \in 1..Len(results) :
                    /\ results[i] # FallThrough
                    /\ \A k \in 1..(i - 1) : results[k] = FallThrough]
    ELSE last

\* a faulty variant of processQuery: the guard is `if (!data)` only, so
\* Object.keys(data[0]) throws on an empty array
processQuery_guardsNullOnly(q, data) ==
    IF data.isNull THEN NoDataMessage
    ELSE IF Len(data.rows) = 0 THEN [kind |-> "TypeError"]
    ELSE LET lowerQuery == toLowerCase(q)
         IN  firstAnswer(<<averageHandler(lowerQuery, data),
                           countHandler(lowerQuery, data),
                           highestHandler(lowerQuery, data),
                           lowestHandler(lowerQuery, data),
                           correlationHandler(lowerQuery, data),
                           topBottomHandler(lowerQuery, data)>>,
                         defaultResponse(q, data))

processQuery(q, data) ==
    IF data.isNull \/ Len(data.rows) = 0 THEN NoDataMessage
    ELSE LET lowerQuery == toLowerCase(q)
         IN  firstAnswer(<<averageHandler(lowerQuery, data),
                           countHandler(lowerQuery, data),
                           highestHandler(lowerQuery, data),
                           lowestHandler(lowerQuery, data),
                           correlationHandler(lowerQuery, data),
                           topBottomHandler(lowerQuery, data)>>,
                         defaultResponse(q, data))

(***************************************************************************)
(* QueryInterface (the generateMockResponse version)                       *)
(***************************************************************************)
\* Math.max(...xs) of a non-empty list of integers
MaxOf(xs) == CHOOSE m \in {xs[i] : i \in 1..Len(xs)} : \A i \in 1..Len(xs) : xs[i] <= m

\* Math.min(...xs) of a non-empty list of integers
MinOf(xs) == CHOOSE m \in {xs[i] : i \in 1..Len(xs)} : \A i \in 1..Len(xs) : m <= xs[i]

\* the numbers among a row's values: Object.values(row).filter(typeof number)
numbersOfRow(row) ==
    LET kept == SelectSeq(row, LAMBDA kv : isTypeofNumber(kv.v))
    IN  [i \in 1..Len(kept) |-> kept[i].v.n]

\* Math.random() is read from `rng`; numbers printed with toFixed(2) are
\* kept in hundredths.  data[0] of a null dataset throws a TypeError.
generateMockResponse(q, data) ==
    LET lowerQuery == toLowerCase(q)
    IN  IF includes(lowerQuery, "top") \/ includes(lowerQuery, "highest")
        THEN IF data.isNull THEN [kind |-> "TypeError"]
             ELSE LET firstRow == IF Len(data.rows) = 0 THEN <<>> ELSE data.rows[1]
                      numericValues == numbersOfRow(firstRow)
                      maxValue == IF Len(numericValues) > 0 THEN MaxOf(numericValues) ELSE 0
                  IN  [kind |-> "mockTop", maxValue |-> 100 * maxValue]
        ELSE IF includes(lowerQuery, "trend") \/ includes(lowerQuery, "time")
        THEN [kind |-> "mockTrend"]
        ELSE IF includes(lowerQuery, "average") \/ includes(lowerQuery, "mean")
        THEN \* (Math.random() * 100 + 50).toFixed(2)
             [kind |-> "mockAverage", around |-> rng + 5000]
        ELSE IF includes(lowerQuery, "outlier") \/ includes(lowerQuery, "anomal")
        THEN [kind |-> "mockOutlier"]
        ELSE IF includes(lowerQuery, "pattern") \/ includes(lowerQuery, "insight")
        THEN [kind |-> "mockPattern"]
        ELSE [kind |-> "mockDefault", query |-> q]

(***************************************************************************)
(* QueryInterface (the generateDataDrivenResponse version)                 *)
(***************************************************************************)
\* dataset.map(row => row[col]).filter(typeof number)
typedNumbers(dataset, col) ==
    LET cells == [i \in 1..Len(dataset.rows) |-> Get(dataset.rows[i], col)]
        kept == SelectSeq(cells, LAMBDA v : isTypeofNumber(v))
    IN  [i \in 1..Len(kept) |-> kept[i].n]

\* columns.filter(col => dataset.some(row => typeof row[col] === 'number'))
typedNumericColumns(dataset) ==
    SelectSeq(columnsOf(dataset), LAMBDA col : Len(typedNumbers(dataset, col)) > 0)

RECURSIVE flatten(_)
flatten(xss) == IF Len(xss) = 0 THEN <<>> ELSE xss[1] \o flatten(Tail(xss))

\* dataset.flatMap(row => numericColumns.map(col => row[col]).filter(number))
allNumericValuesOf(dataset, numericColumns) ==
    flatten([i \in 1..Len(dataset.rows) |->
        LET cells == [c \in 1..Len(numericColumns) |->
                        Get(dataset.rows[i], numericColumns[c])]
            kept == SelectSeq(cells, LAMBDA v : isTypeofNumber(v))
        IN  [j \in 1..Len(kept) |-> kept[j].n]])

\* cols.find(...): the first of the elements that satisfy the test
firstWhere(found) == found[1]

\* [...new Set(xs)]: the distinct elements in order of first occurrence
RECURSIVE distinctInOrder(_)
distinctInOrder(xs) ==
    IF Len(xs) = 0 THEN <<>>
    ELSE LET front == distinctInOrder(SubSeq(xs, 1, Len(xs) - 1))
             last == xs[Len(xs)]
         IN  IF \E i \in 1..Len(front) : front[i] = last
             THEN front ELSE Append(front, last)

\* a faulty variant of columnStats: the average is the mock version's Math.random()
columnStats_random(dataset, col) ==
    LET values == typedNumbers(dataset, col)
    IN  [col |-> col, avg |-> rng + 5000,
         min |-> MinOf(values), max |-> MaxOf(values)]

\* `${col}: ...` statistics of one numeric column, Math.min/max of an empty
\* list being +/-Infinity
columnStats(dataset, col) ==
    LET values == typedNumbers(dataset, col)
    IN  [col |-> col,
         avg |-> RoundDiv(100 * SumSeq(values), Len(values)),
         min |-> MinOf(values), max |-> MaxOf(values)]

\* one line of the "Top 5" listing
ddTopEntry(row, index, mainCol, columns) ==
    LET strCols == SelectSeq(columns, LAMBDA c : Get(row, c).t = "str")
    IN  [index |-> index, value |-> String(Get(row, mainCol)),
         label |-> IF Len(strCols) > 0
                   THEN "(" \o String(Get(row, strCols[1])) \o ")" ELSE ""]

generateDataDrivenResponse(q, dataset) ==
    IF dataset.isNull \/ Len(dataset.rows) = 0 THEN NoDataMessage
    ELSE
    LET lowerQuery == toLowerCase(q)
        columns == columnsOf(dataset)
        numericColumns == typedNumericColumns(dataset)
        allNumericValues == allNumericValuesOf(dataset, numericColumns)
        isPrice(col) == includes(toLowerCase(col), "price")
        isHp(col) == includes(toLowerCase(col), "horsepower")
                        \/ includes(toLowerCase(col), "hp")
        has(word) == includes(lowerQuery, word)
    IN  IF (has("average") \/ has("mean"))
           /\ has("price") /\ \E i \in 1..Len(numericColumns) : isPrice(numericColumns[i])
        THEN LET priceCol == firstWhere(SelectSeq(numericColumns, isPrice))
                 prices == typedNumbers(dataset, priceCol)
             IN  [kind |-> "ddAveragePrice", col |-> toLowerCase(priceCol),
                  avg |-> RoundDiv(100 * SumSeq(prices), Len(prices))]
        ELSE IF (has("average") \/ has("mean")) /\ Len(allNumericValues) > 0
        THEN [kind |-> "ddOverallAverage",
              avg |-> RoundDiv(100 * SumSeq(allNumericValues), Len(allNumericValues))]
        ELSE IF (has("max") \/ has("highest"))
                /\ has("horsepower") /\ \E i \in 1..Len(numericColumns) : isHp(numericColumns[i])
        THEN [kind |-> "ddMaxHorsepower",
              max |-> MaxOf(typedNumbers(dataset, firstWhere(SelectSeq(numericColumns, isHp))))]
        ELSE IF (has("max") \/ has("highest")) /\ Len(allNumericValues) > 0
        THEN [kind |-> "ddHighest", max |-> MaxOf(allNumericValues)]
        ELSE IF (has("min") \/ has("lowest")) /\ Len(allNumericValues) > 0
        THEN [kind |-> "ddLowest", min |-> MinOf(allNumericValues)]
        ELSE IF has("how many") \/ has("count") \/ has("records")
        THEN [kind |-> "ddCount", n |-> Len(dataset.rows), columns |-> Len(columns)]
        ELSE IF has("top") /\ (has("5") \/ has("five")) /\ Len(numericColumns) > 0
        THEN LET mainCol == numericColumns[1]
                 typed == ArrayFilter(SelectSeq(DataArray(dataset).elems,
                            LAMBDA row : isTypeofNumber(Get(row, mainCol))))
                 topItems == ArraySlice0(
                     ArraySortByKey(typed,
                         [i \in 1..Len(typed.elems) |-> -Get(typed.elems[i], mainCol).n]),
                     5).elems
             IN  [kind |-> "ddTop5", col |-> mainCol,
                  items |-> [i \in 1..Len(topItems) |->
                                ddTopEntry(topItems[i], i, mainCol, columns)]]
        ELSE IF has("range") \/ (has("min") /\ has("max"))
        THEN [kind |-> "ddRanges",
              ranges |-> [i \in 1..Len(numericColumns) |->
                  LET values == typedNumbers(dataset, numericColumns[i])
                  IN  [col |-> numericColumns[i],
                       min |-> MinOf(values), max |-> MaxOf(values)]]]
        ELSE IF (has("unique") \/ has("categories") \/ has("distinct"))
                /\ \E i \in 1..Len(columns) : \E r \in 1..Len(dataset.rows) :
                        Get(dataset.rows[r], columns[i]).t = "str"
        THEN LET stringColumns == SelectSeq(columns, LAMBDA c :
                     \E r \in 1..Len(dataset.rows) : Get(dataset.rows[r], c).t = "str")
                 firstStringCol == stringColumns[1]
                 cells == SelectSeq(
                     [r \in 1..Len(dataset.rows) |-> Get(dataset.rows[r], firstStringCol)],
                     LAMBDA v : v.t \notin {"null", "undef"})
                 uniqueValues == distinctInOrder(cells)
             IN  [kind |-> "ddUnique", n |-> Len(uniqueValues), col |-> firstStringCol,
                  values |-> join([i \in 1..(IF Len(uniqueValues) < 10
                                             THEN Len(uniqueValues) ELSE 10) |->
                                      String(uniqueValues[i])], ", "),
                  more |-> Len(uniqueValues) > 10]
        ELSE IF has("summary") \/ has("overview") \/ has("stats")
        THEN [kind |-> "ddSummary", n |-> Len(dataset.rows),
              stats |-> [i \in 1..(IF Len(numericColumns) < 3
                                   THEN Len(numericColumns) ELSE 3) |->
                            columnStats(dataset, numericColumns[i])]]
        ELSE IF Len(numericColumns) > 0
        THEN [kind |-> "ddFallbackNumeric", query |-> q, n |-> Len(dataset.rows),
              stats |-> columnStats(dataset, numericColumns[1])]
        ELSE [kind |-> "ddFallback", query |-> q, n |-> Len(dataset.rows),
              columns |-> join(ArraySlice0([shared |-> FALSE, elems |-> columns], 5).elems, ", "),
              more |-> Len(columns) > 5]

(***************************************************************************)
(* FileUpload: validation and parsing                                      *)
(***************************************************************************)
validTypes ==
    {"text/csv",
     "application/vnd.ms-excel",
     "application/vnd.openxmlformats-officedocument.spreadsheetml.sheet"}

\* the negation of handleFile's rejection test
passesValidation(file) ==
    ~(/\ file.type \notin validTypes
      /\ ~endsWith(file.name, ".csv")
      /\ ~endsWith(file.name, ".xlsx"))

\* a key that is the decimal form of an array index: Object.keys lists
\* such keys first, in ascending order
IsArrayIndex(k) == AllDigits(k) /\ (Len(k) = 1 \/ SubSeq(k, 1, 1) # "0")

\* row[header] = value: an existing key keeps its place and takes the value;
\* a new key goes behind the others, an array index behind the smaller ones
SetKey(row, k, v) ==
    IF \E i \in 1..Len(row) : row[i].k = k
    THEN [i \in 1..Len(row) |-> IF row[i].k = k THEN [k |-> k, v |-> v] ELSE row[i]]
    ELSE IF IsArrayIndex(k)
    THEN LET smaller(kv) == IsArrayIndex(kv.k) /\ DigitsVal(kv.k) < DigitsVal(k)
         IN  SelectSeq(row, smaller) \o <<[k |-> k, v |-> v]>>
                \o SelectSeq(row, LAMBDA kv : ~smaller(kv))
    ELSE Append(row, [k |-> k, v |-> v])

\* headers.forEach((header, index) => { row[header] = values[index] || '' })
RECURSIVE csvRow(_, _, _)
csvRow(headers, values, index) ==
    IF index = 0 THEN <<>>
    ELSE SetKey(csvRow(headers, values, index - 1), headers[index],
                Str(IF index <= Len(values) THEN values[index] ELSE ""))

\* lines[i].split(',').map(v => v.trim().replace(/"/g, ''))
csvCells(line) ==
    LET cells == split(line, ",")
    IN  [i \in 1..Len(cells) |-> removeQuotes(trim(cells[i]))]

\* a faulty variant of parseCSV: the `if (lines[i].trim())` test is missing
parseCSV_keepsBlankLines(text) ==
    LET lines == split(text, "\n")
        headers == csvCells(lines[1])
    IN  [i \in 1..(Len(lines) - 1) |->
            csvRow(headers, csvCells(lines[i + 1]), Len(headers))]

\* parseCSV(text): the rows of the non-blank lines after the header line
parseCSV(text) ==
    LET lines == split(text, "\n")
        headers == csvCells(lines[1])
        kept == SelectSeq([i \in 1..(Len(lines) - 1) |-> lines[i + 1]],
                          LAMBDA line : trim(line) # "")
    IN  [i \in 1..Len(kept) |-> csvRow(headers, csvCells(kept[i]), Len(headers))]

\* the array handleFile builds from a readable file: parseCSV of its text
\* for a .csv name, otherwise sheet_to_json of the workbook's first sheet
parsedRows(file) ==
    IF endsWith(file.name, ".csv") THEN parseCSV(file.text) ELSE file.sheet

(***************************************************************************)
(* DataPreview: the derived table                                          *)
(***************************************************************************)
rowsPerPage == 10

\* Object.values(row)
ObjectValues(row) == [i \in 1..Len(row) |-> row[i].v]

\* parseFloat(String(v)): leading white space, an optional sign and a run
\* of digits; NaN without a digit
parseFloat(text) ==
    LET t == trimStart(text)
        signed == t # "" /\ SubSeq(t, 1, 1) \in {"-", "+"}
        body == IF signed THEN Tail(t) ELSE t
        run == IF body # "" /\ IsDigit(SubSeq(body, 1, 1)) THEN firstDigits(body) ELSE ""
    IN  IF run = "" THEN NaN
        ELSE IF signed /\ SubSeq(t, 1, 1) = "-" THEN Fin(-DigitsVal(run))
        ELSE Fin(DigitsVal(run))

\* the collation order of the characters the cells are made of
CollationOrder == " _-,.0123456789abcdefghijklmnopqrstuvwxyz"

CollationRank(c) ==
    IF \E i \in 1..Len(CollationOrder) : SubSeq(CollationOrder, i, i) = LowerChar(c)
    THEN CHOOSE i \in 1..Len(CollationOrder) : SubSeq(CollationOrder, i, i) = LowerChar(c)
    ELSE Len(CollationOrder) + 1

\* a.localeCompare(b) as -1, 0 or 1
RECURSIVE localeCompare(_, _)
localeCompare(a, b) ==
    IF a = "" /\ b = "" THEN 0
    ELSE IF a = "" THEN -1
    ELSE IF b = "" THEN 1
    ELSE IF CollationRank(SubSeq(a, 1, 1)) < CollationRank(SubSeq(b, 1, 1)) THEN -1
    ELSE IF CollationRank(SubSeq(a, 1, 1)) > CollationRank(SubSeq(b, 1, 1)) THEN 1
    ELSE localeCompare(Tail(a), Tail(b))

\* the search test of one row
matchesSearch(row, term) ==
    \E i \in 1..Len(row) :
        includes(toLowerCase(String(ObjectValues(row)[i])), toLowerCase(term))

\* String(row[filter.column] || '').toLowerCase()
filterCellValue(row, column) ==
    LET v == Get(row, column)
        falsy == \/ v.t \in {"null", "undef"}
                 \/ (v.t = "str" /\ v.s = "")
                 \/ (v.t = "num" /\ v.n = 0)
    IN  IF falsy THEN "" ELSE toLowerCase(String(v))

\* the switch on filter.operator
satisfiesFilter(row, filter) ==
    LET cellValue == filterCellValue(row, filter.column)
        filterValue == toLowerCase(filter.value)
        cellNumber == parseFloat(cellValue)
        filterNumber == parseFloat(filterValue)
    IN  CASE filter.operator = "equals" -> cellValue = filterValue
          [] filter.operator = "contains" -> includes(cellValue, filterValue)
          [] filter.operator = "starts_with" -> startsWith(cellValue, filterValue)
          [] filter.operator = "ends_with" -> endsWith(cellValue, filterValue)
          [] filter.operator = "greater_than" ->
                ~cellNumber.nan /\ ~filterNumber.nan /\ cellNumber.n > filterNumber.n
          [] filter.operator = "less_than" ->
                ~cellNumber.nan /\ ~filterNumber.nan /\ cellNumber.n < filterNumber.n
          [] OTHER -> TRUE

\* what the comparator reads of a row: aValue = a[sortColumn] as
\* parseFloat(aValue) and as String(aValue).toLowerCase()
sortKey(row, column) ==
    [row |-> row,
     num |-> parseFloat(String(Get(row, column))),
     str |-> toLowerCase(String(Get(row, column)))]

\* the comparator of the sort: numeric when both cells parse, otherwise by
\* localeCompare of the lower-cased text
sortComparator(a, b, direction) ==
    IF ~a.num.nan /\ ~b.num.nan
    THEN IF direction = "asc" THEN a.num.n - b.num.n ELSE b.num.n - a.num.n
    ELSE IF direction = "asc" THEN localeCompare(a.str, b.str)
    ELSE localeCompare(b.str, a.str)

\* a row put into rows already in order: behind every row that does not
\* come after it
RECURSIVE insertInOrder(_, _, _)
insertInOrder(sorted, item, direction) ==
    IF sorted = <<>> THEN <<item>>
    ELSE LET last == sorted[Len(sorted)]
         IN  IF sortComparator(last, item, direction) <= 0
             THEN Append(sorted, item)
             ELSE Append(insertInOrder(SubSeq(sorted, 1, Len(sorted) - 1),
                                       item, direction),
                         last)

\* the first n rows in the order of the comparator, equal rows in their
\* original order
RECURSIVE inOrder(_, _, _, _)
inOrder(rows, n, column, direction) ==
    IF n = 0 THEN <<>>
    ELSE insertInOrder(inOrder(rows, n - 1, column, direction),
                       sortKey(rows[n], column), direction)

RECURSIVE rowsOf(_, _)
rowsOf(items, n) ==
    IF n = 0 THEN <<>> ELSE Append(rowsOf(items, n - 1), items[n].row)

\* arr.sort((a, b) => ...) of the sort step: stable, in place (the result
\* is the same array object)
ArraySort(arr, column, direction) ==
    [shared |-> arr.shared,
     elems |-> rowsOf(inOrder(arr.elems, Len(arr.elems), column, direction),
                      Len(arr.elems))]

\* arr.slice(start, end): a fresh array; a negative index counts from the end
ArraySlice(arr, start, end) ==
    LET n == Len(arr.elems)
        clamp(i) == IF i < 0 THEN (IF n + i < 0 THEN 0 ELSE n + i)
                    ELSE IF i > n THEN n ELSE i
    IN  [shared |-> FALSE,
         elems |-> SubSeq(arr.elems, clamp(start) + 1, clamp(end))]

\* a faulty variant of spreadOf: the array itself instead of a copy
spreadOf_alias(filtered) == filtered

\* [...filtered] of the sort step
spreadOf(filtered) == SpreadCopy(filtered)

\* a faulty variant of filteredAndSortedData: `filters.some` in place of
\* `filters.every`
filteredAndSortedData_anyFilter(data, term, column, direction, conditions) ==
    IF data.isNull THEN [shared |-> FALSE, elems |-> <<>>]
    ELSE LET searched ==
                 IF term # ""
                 THEN ArrayFilter(SelectSeq(DataArray(data).elems,
                                            LAMBDA row : matchesSearch(row, term)))
                 ELSE DataArray(data)
             filtered ==
                 IF Len(conditions) > 0
                 THEN ArrayFilter(SelectSeq(searched.elems, LAMBDA row :
                        \E i \in 1..Len(conditions) : satisfiesFilter(row, conditions[i])))
                 ELSE searched
         IN  IF column # ""
             THEN ArraySort(spreadOf(filtered), column, direction)
             ELSE filtered

\* the useMemo body of filteredAndSortedData, as the array object it returns
filteredAndSortedData(data, term, column, direction, conditions) ==
    IF data.isNull THEN [shared |-> FALSE, elems |-> <<>>]
    ELSE LET searched ==
                 IF term # ""
                 THEN ArrayFilter(SelectSeq(DataArray(data).elems,
                                            LAMBDA row : matchesSearch(row, term)))
                 ELSE DataArray(data)
             filtered ==
                 IF Len(conditions) > 0
                 THEN ArrayFilter(SelectSeq(searched.elems, LAMBDA row :
                        \A i \in 1..Len(conditions) : satisfiesFilter(row, conditions[i])))
                 ELSE searched
         IN  IF column # ""
             THEN ArraySort(spreadOf(filtered), column, direction)
             ELSE filtered

\* Math.ceil(filteredAndSortedData.length / rowsPerPage)
totalPagesOf(filteredAndSorted) ==
    (Len(filteredAndSorted.elems) + rowsPerPage - 1) \div rowsPerPage

\* a faulty variant of paginatedData: the first page starts behind the
\* first rowsPerPage rows
paginatedData_startsAtPage(filteredAndSorted, page) ==
    LET startIndex == page * rowsPerPage
    IN  ArraySlice(filteredAndSorted, startIndex, startIndex + rowsPerPage).elems

\* the useMemo body of paginatedData
paginatedData(filteredAndSorted, page) ==
    LET startIndex == (page - 1) * rowsPerPage
    IN  ArraySlice(filteredAndSorted, startIndex, startIndex + rowsPerPage).elems

(***************************************************************************)
(* The inputs the specifications draw from.  A CSV upload holds strings    *)
(* only ('' for a missing value); a workbook upload holds numbers and      *)
(* strings and leaves the key of an empty cell out of the row.  Cell       *)
(* values stay below 100 so that the sums of calculateCorrelation fit      *)
(* TLC's 32-bit integers.                                                  *)
(***************************************************************************)
CarsRows ==
    << Row(<<"make", "price", "hp">>, <<Str("Audi"), Num(30), Num(20)>>),
       Row(<<"make", "price", "hp">>, <<Str("BMW"), Num(50), Num(20)>>),
       Row(<<"make", "hp">>, <<Str("Fiat"), Num(9)>>),
       Row(<<"make", "price", "hp">>, <<Str("audi"), Num(50), Num(15)>>) >>

PeopleRows ==
    << Row(<<"name", "age", "income">>, <<Str("ann"), Str("30"), Str("50")>>),
       Row(<<"name", "age", "income">>, <<Str("bob"), Str(""), Str("70")>>),
       Row(<<"name", "age", "income">>, <<Str("cy"), Str("41"), Str("20")>>) >>

SalesRows ==
    << Row(<<"region", "price", "price_net", "discount">>,
           <<Str("north"), Str("10"), Str("8"), Str("2")>>),
       Row(<<"region", "price", "price_net", "discount">>,
           <<Str("south"), Str("30"), Str(""), Str("5")>>),
       Row(<<"region", "price", "price_net", "discount">>,
           <<Str("west"), Str("20"), Str("19"), Str("1")>>) >>

WeatherRows ==
    << Row(<<"city", "temp">>, <<Str("oslo"), Str("-5")>>),
       Row(<<"city", "temp">>, <<Str("rome"), Str("")>>),
       Row(<<"city", "temp">>, <<Str("bern"), Str("-2")>>) >>

\* a table longer than one page of DataPreview
LongRows ==
    [i \in 1..11 |-> Row(<<"id", "v">>, <<Num(i), Num((i * 7) % 11)>>)]

\* the text of people.csv
PeopleCSV == "name,age,income\nann,30,50\nbob,,70\n\ncy, 41 ,\"20\"\n"

\* the size limit the upload screen announces: 10MB, in bytes
MaxFileSize == 10485760

\* the files a user selects or drops: three CSVs (one with a header line
\* only, one of 11MB whose text is shown by its first lines), a workbook, an
\* Excel 97 workbook the browser gives no MIME type for, a text file and a
\* workbook whose bytes cannot be read; a file taken from disk has a name,
\* and `size` is File.size in bytes
Files ==
    { [name |-> "people.csv", type |-> "text/csv", text |-> PeopleCSV,
       sheet |-> <<>>, unreadable |-> FALSE, size |-> 42],
      [name |-> "cars.xlsx",
       type |-> "application/vnd.openxmlformats-officedocument.spreadsheetml.sheet",
       text |-> "", sheet |-> CarsRows, unreadable |-> FALSE, size |-> 9216],
      [name |-> "empty.csv", type |-> "", text |-> "name,age\n",
       sheet |-> <<>>, unreadable |-> FALSE, size |-> 9],
      [name |-> "big.csv", type |-> "text/csv", text |-> PeopleCSV,
       sheet |-> <<>>, unreadable |-> FALSE, size |-> 11534336],
      [name |-> "legacy.xls", type |-> "", text |-> "",
       sheet |-> CarsRows, unreadable |-> FALSE, size |-> 20480],
      [name |-> "notes.txt", type |-> "text/plain", text |-> "hello",
       sheet |-> <<>>, unreadable |-> FALSE, size |-> 5],
      [name |-> "broken.xlsx", type |-> "", text |-> "",
       sheet |-> <<>>, unreadable |-> TRUE, size |-> 512] }

\* the name of the file a held dataset came from
FileNameOf(data) ==
    IF data.isNull THEN ""
    ELSE IF data.rows = CarsRows THEN "cars.xlsx"
    ELSE "data.csv"

\* the datasets an upload can produce (an empty one from a header-only CSV)
Datasets == {Data(CarsRows), Data(PeopleRows), Data(SalesRows),
             Data(WeatherRows), Data(<<>>)}

ColumnNames == {"make", "price", "hp", "name", "age", "income", "region",
                "price_net", "discount", "city", "temp"}

\* the question forms of the help text, the README and the code's comments,
\* filled with every column name
TemplateQueries ==
    UNION {{"What is the average " \o c \o "?",
            "What is the highest " \o c \o "?",
            "What is the lowest " \o c \o "?",
            "Show me the top 5 " \o c,
            "Show me the top 2 " \o c,
            "Show me the bottom 2 " \o c,
            "Show me the top " \o c,
            "How many " \o c \o " are made by Audi?",
            "How many " \o c \o " by",
            "Which " \o c \o " is most common?"} : c \in ColumnNames}

CorrelationQueries ==
    {"What is the correlation between " \o a \o " and " \o b \o "?" :
        a \in ColumnNames, b \in ColumnNames}
    \cup {"What is the correlation of " \o c \o "?" : c \in ColumnNames}

sampleQueries ==
    {"What are the top 5 products by sales?",
     "Show me the average order value by region.",
     "Which customers have the highest lifetime spend?",
     "What is the correlation between age and income?",
     "List all orders placed in the last month."}

suggestedQueries ==
    {"What are the top 5 categories by value?",
     "Show me the trend over time",
     "What's the average value per category?",
     "Find any outliers or anomalies",
     "What patterns do you see in the data?",
     "Which month had the highest sales?",
     "What is the average price?",
     "What is the maximum horsepower?",
     "Show me the top 5 highest values",
     "What is the minimum and maximum of each column?",
     "How many records are there?",
     "What are the unique categories?"}

OtherQueries ==
    {"How many cars are made by Audi?",
     "Which fuel system type is most common?",
     "How many records",
     "Show me the TOP 0 price",
     "Show me the bottom 2 hp and price",
     "Give me a summary",
     "What is the range of hp?",
     "What is the average price correlation?",
     "hello",
     ""}

Queries == TemplateQueries \cup CorrelationQueries \cup sampleQueries
            \cup suggestedQueries \cup OtherQueries

\* outcomes of Math.random() * 100, in hundredths
RandomOutcomes == {0, 4217}

NoResponse == [kind |-> "none"]
NoCall == [fn |-> "none"]
NoFilter == [column |-> "", operator |-> "equals", value |-> ""]

\* the inputs of the DataPreview specification
PreviewDatasets == {Data(PeopleRows), Data(CarsRows), Data(LongRows)}
SearchTerms == {"", "0"}
SortColumns == {"name", "age", "hp", "v"}
FilterColumns == {"age", "income", "hp", "v"}
FilterOperators == {"greater_than"}
FilterValues == {"", "25"}

\* the conditions the user adds with the Add Filter button
FilterConditions ==
    {[column |-> c, operator |-> "greater_than", value |-> "25"] :
        c \in FilterColumns}
PreviewQueries == {"Show me the bottom 2 age hp v"}

\* the bounds of the specifications
MaxFilters == 2
MaxUploads == 2

\* a call of a query-answering function as the log keeps it
Call(fn, q, data, result) ==
    [fn |-> fn, query |-> q, data |-> data, result |-> result]

(***************************************************************************)
(* SpecQuery: the query-answering functions applied to drawn inputs        *)
(***************************************************************************)
\* what processQuery leaves in the dataset object: only the top/bottom
\* handler sorts, and it sorts the array it filtered out of a copy
dataAfterProcessQuery(q, data) ==
    IF processQuery(q, data).kind = "topBottom"
    THEN LET lowerQuery == toLowerCase(q)
             numericColumns == numericColumnsOf(data)
             col == numericColumns[firstMentioned(numericColumns, lowerQuery)]
         IN  RowsAfter(topBottomSortedArray(data, col, includes(lowerQuery, "top")),
                       data)
    ELSE data

QueryInit ==
    /\ uploadedData \in Datasets \cup {NullData}
    /\ query \in Queries
    /\ response = NoResponse
    /\ rng \in RandomOutcomes
    /\ lastCall = NoCall
    /\ prevCall = NoCall
    /\ fileName = FileNameOf(uploadedData)
    /\ isProcessing = FALSE
    /\ handling = {}
    /\ delivering = {}
    /\ uploadProgress = 0
    /\ intervals = 0
    /\ alerts = 0
    /\ toasts = 0
    /\ started = 0
    /\ currentPage = 1
    /\ searchTerm = ""
    /\ sortColumn = ""
    /\ sortDirection = "asc"
    /\ showFilterDialog = FALSE
    /\ filters = <<>>
    /\ newFilter = NoFilter
    /\ isLoading = FALSE
    /\ pending = {}

IndexFrame ==
    UNCHANGED <<fileName, isProcessing, handling, delivering, uploadProgress,
                intervals, alerts, toasts, started>>

PreviewFrame ==
    UNCHANGED <<currentPage, searchTerm, sortColumn, sortDirection,
                showFilterDialog, filters, newFilter>>

QueryFrame ==
    /\ IndexFrame
    /\ PreviewFrame
    /\ UNCHANGED <<query, isLoading, pending>>

\* const result = processQuery(query, data); setResponse(result)
CallProcessQuery ==
    /\ response' = processQuery(query, uploadedData)
    /\ uploadedData' = dataAfterProcessQuery(query, uploadedData)
    /\ prevCall' = lastCall
    /\ lastCall' = Call("processQuery", query, uploadedData, response')
    /\ UNCHANGED rng
    /\ QueryFrame

\* const mockResponse = generateMockResponse(queryText, data); the average
\* branch consumes one Math.random() value
CallGenerateMockResponse ==
    /\ response' = generateMockResponse(query, uploadedData)
    /\ prevCall' = lastCall
    /\ lastCall' = Call("generateMockResponse", query, uploadedData, response')
    /\ IF response'.kind = "mockAverage"
       THEN rng' \in RandomOutcomes
       ELSE UNCHANGED rng
    /\ UNCHANGED uploadedData
    /\ QueryFrame

\* const dataResponse = generateDataDrivenResponse(queryText, data)
CallGenerateDataDrivenResponse ==
    /\ response' = generateDataDrivenResponse(query, uploadedData)
    /\ prevCall' = lastCall
    /\ lastCall' = Call("generateDataDrivenResponse", query, uploadedData, response')
    /\ UNCHANGED <<uploadedData, rng>>
    /\ QueryFrame

\* Math.random() is global: between two calls of a function any other
\* code of the page may draw from it
MathRandomDrawn ==
    /\ rng' \in RandomOutcomes \ {rng}
    /\ UNCHANGED <<uploadedData, response, lastCall, prevCall>>
    /\ QueryFrame

QueryNext ==
    \/ CallProcessQuery
    \/ CallGenerateMockResponse
    \/ CallGenerateDataDrivenResponse
    \/ MathRandomDrawn

SpecQuery == QueryInit /\ [][QueryNext]_vars

(***************************************************************************)
(* Spec: the Index page and the FileUpload component, from page load       *)
(***************************************************************************)
Init ==
    /\ uploadedData = NullData
    /\ fileName = ""
    /\ isProcessing = FALSE
    /\ handling = {}
    /\ delivering = {}
    /\ uploadProgress = 0
    /\ intervals = 0
    /\ alerts = 0
    /\ toasts = 0
    /\ started = 0
    /\ currentPage = 1
    /\ searchTerm = ""
    /\ sortColumn = ""
    /\ sortDirection = "asc"
    /\ showFilterDialog = FALSE
    /\ filters = <<>>
    /\ newFilter = NoFilter
    /\ query = ""
    /\ response = NoResponse
    /\ isLoading = FALSE
    /\ pending = {}
    /\ rng = 0
    /\ lastCall = NoCall
    /\ prevCall = NoCall

\* everything outside Index and FileUpload
DashboardFrame ==
    /\ PreviewFrame
    /\ UNCHANGED <<query, response, isLoading, pending, rng, lastCall, prevCall>>

\* `if (!uploadedData)`: null is falsy, every array is truthy
ShowsUploadScreen == uploadedData.isNull

\* the drop zone and the file input are rendered by the upload screen
\* unless isProcessing puts the spinner in their place
ShowsDropZone == ShowsUploadScreen /\ ~isProcessing

\* a faulty variant of handleFile: the `return` after the alert is missing
handleFile_alertsAndGoesOn(file) ==
    /\ ShowsDropZone
    /\ started < MaxUploads
    /\ started' = started + 1
    /\ alerts' = IF ~passesValidation(file) THEN alerts + 1 ELSE alerts
    /\ uploadProgress' = 0
    /\ intervals' = intervals + 1
    /\ handling' = handling \cup
            {[id |-> started + 1, file |-> file, step |-> "reading",
              mounted |-> TRUE]}
    /\ UNCHANGED <<uploadedData, fileName, isProcessing, delivering, toasts>>
    /\ DashboardFrame

\* handleDrop / handleChange -> handleFile(file), up to its first await:
\* a file failing the validation is alerted; otherwise the progress is
\* reset, the interval starts and the file is being read
handleFile(file) ==
    /\ ShowsDropZone
    /\ started < MaxUploads
    /\ started' = started + 1
    /\ IF ~passesValidation(file)
       THEN /\ alerts' = alerts + 1
            /\ UNCHANGED <<uploadProgress, intervals, handling>>
       ELSE /\ uploadProgress' = 0
            /\ intervals' = intervals + 1
            /\ handling' = handling \cup
                    {[id |-> started + 1, file |-> file, step |-> "reading",
                      mounted |-> TRUE]}
            /\ UNCHANGED alerts
    /\ UNCHANGED <<uploadedData, fileName, isProcessing, delivering, toasts>>
    /\ DashboardFrame

\* the setInterval callback: setUploadProgress(prev => ...), clearing the
\* interval once 90 is reached
progressInterval ==
    /\ intervals > 0
    /\ uploadProgress' = IF uploadProgress >= 90 THEN 90 ELSE uploadProgress + 10
    /\ intervals' = IF uploadProgress >= 90 THEN intervals - 1 ELSE intervals
    /\ UNCHANGED <<uploadedData, fileName, isProcessing, handling, delivering,
                   alerts, toasts, started>>
    /\ DashboardFrame

\* handleFile after file.text() / file.arrayBuffer(): a failed read or parse
\* is caught and alerted; otherwise setUploadProgress(100) and the 200 ms
\* wait.  A setter of an unmounted FileUpload changes nothing.
handleFileRead(h) ==
    /\ h \in handling
    /\ h.step = "reading"
    /\ IF h.file.unreadable
       THEN /\ alerts' = alerts + 1
            /\ handling' = handling \ {h}
            /\ UNCHANGED uploadProgress
       ELSE /\ uploadProgress' = IF h.mounted THEN 100 ELSE uploadProgress
            /\ handling' = (handling \ {h}) \cup {[h EXCEPT !.step = "waiting"]}
            /\ UNCHANGED alerts
    /\ UNCHANGED <<uploadedData, fileName, isProcessing, delivering, intervals,
                   toasts, started>>
    /\ DashboardFrame

\* handleFile after the 200 ms: onFileUpload(file, data), which is
\* handleFileUpload up to its await: setIsProcessing(true)
handleFileUploadStarted(h) ==
    /\ h \in handling
    /\ h.step = "waiting"
    /\ handling' = handling \ {h}
    /\ delivering' = delivering \cup
            {[id |-> h.id, file |-> h.file, data |-> parsedRows(h.file)]}
    /\ isProcessing' = TRUE
    /\ UNCHANGED <<uploadedData, fileName, uploadProgress, intervals, alerts,
                   toasts, started>>
    /\ DashboardFrame

\* handleFileUpload after the 1500 ms: setUploadedData(data),
\* setFileName(file.name), toast, finally setIsProcessing(false), rendered
\* as one update.  The dashboard replaces the upload screen, so the
\* FileUpload instance is unmounted: its timers and the handleFile calls it
\* has in flight no longer reach a mounted component's state.
handleFileUploadCompleted(d) ==
    /\ d \in delivering
    /\ delivering' = delivering \ {d}
    /\ uploadedData' = Data(d.data)
    /\ fileName' = d.file.name
    /\ toasts' = toasts + 1
    /\ isProcessing' = FALSE
    /\ handling' = {[h EXCEPT !.mounted = FALSE] : h \in handling}
    /\ intervals' = 0
    /\ UNCHANGED <<uploadProgress, alerts, started>>
    /\ DashboardFrame

\* a faulty variant of handleNewUpload: the file name is kept
handleNewUpload_keepsFileName ==
    /\ ~ShowsUploadScreen
    /\ uploadedData' = NullData
    /\ uploadProgress' = 0
    /\ UNCHANGED <<fileName, isProcessing, handling, delivering, intervals,
                   alerts, toasts, started>>
    /\ DashboardFrame

\* the 'Upload New File' button of the dashboard: setUploadedData(null),
\* setFileName('').  The upload screen mounts a new FileUpload, whose
\* uploadProgress is useState(0).
handleNewUpload ==
    /\ ~ShowsUploadScreen
    /\ uploadedData' = NullData
    /\ fileName' = ""
    /\ uploadProgress' = 0
    /\ UNCHANGED <<isProcessing, handling, delivering, intervals, alerts,
                   toasts, started>>
    /\ DashboardFrame

Next ==
    \/ \E file \in Files : handleFile(file)
    \/ progressInterval
    \/ \E h \in handling : handleFileRead(h)
    \/ \E h \in handling : handleFileUploadStarted(h)
    \/ \E d \in delivering : handleFileUploadCompleted(d)
    \/ handleNewUpload

Spec == Init /\ [][Next]_vars

\* C2: in the Index page the held dataset changes only when handleFileUpload
\* completes (uploadedData becomes exactly its `data`, fileName its
\* file.name) and at handleNewUpload (null and ''); fileName is '' exactly
\* when uploadedData is null, and the upload screen is shown exactly when
\* uploadedData is null.
C2_HeldDataset ==
    /\ [](fileName = "" <=> uploadedData = NullData)
    /\ [](ShowsUploadScreen <=> uploadedData = NullData)
    /\ [][(uploadedData' # uploadedData \/ fileName' # fileName)
            => \/ \E d \in delivering :
                    /\ d \notin delivering'
                    /\ uploadedData' = Data(d.data)
                    /\ fileName' = d.file.name
               \/ /\ uploadedData # NullData
                  /\ uploadedData' = NullData
                  /\ fileName' = ""]_vars

\* the upload screen is back after handleNewUpload while a second file,
\* selected before the first one was shown, is still being delivered
C2_Witness ==
    /\ uploadedData = NullData
    /\ fileName = ""
    /\ toasts = 1
    /\ delivering # {}

\* a file of a type handleFile is said to refuse: its MIME type is none of
\* the three accepted ones and its name ends in neither .csv nor .xlsx
RefusedType(file) ==
    /\ file.type # "text/csv"
    /\ file.type # "application/vnd.ms-excel"
    /\ file.type # "application/vnd.openxmlformats-officedocument.spreadsheetml.sheet"
    /\ ~endsWith(file.name, ".csv")
    /\ ~endsWith(file.name, ".xlsx")

\* C13: handleFile alerts the user and stops on every failure: for a file of
\* a refused type and for a file whose reading or parsing throws,
\* onFileUpload is never called (no delivery is ever made for such a file),
\* and the step that alerts leaves the dataset and the file name of the
\* Index page unchanged; for a refused type uploadProgress is unchanged too
\* and nothing is left in flight.
C13_FailuresAlertAndStop ==
    /\ [](\A d \in delivering : ~RefusedType(d.file) /\ ~d.file.unreadable)
    /\ [](\A h \in handling : ~RefusedType(h.file))
    /\ [][\A file \in Files :
            (handleFile(file) /\ RefusedType(file))
            => /\ alerts' = alerts + 1
               /\ UNCHANGED <<uploadedData, fileName, uploadProgress, handling,
                              delivering, isProcessing>>]_vars
    /\ [][\A h \in handling :
            (handleFileRead(h) /\ h.file.unreadable)
            => /\ alerts' = alerts + 1
               /\ handling' = handling \ {h}
               /\ UNCHANGED <<uploadedData, fileName, delivering, isProcessing>>]_vars

\* a refused file and an unreadable one have both been alerted (the
\* unreadable one's progress interval is still running), nothing is in
\* flight and the page still holds no dataset
C13_Witness ==
    /\ alerts = 2
    /\ started = 2
    /\ intervals = 1
    /\ uploadProgress = 30
    /\ handling = {}
    /\ delivering = {}
    /\ uploadedData = NullData
    /\ fileName = ""

\* C14: the maximum file size is 10MB: handleFile never calls onFileUpload
\* for a file larger than 10MB.
C14_SizeLimit == \A d \in delivering : d.file.size <= MaxFileSize

\* C15: every file whose name ends in .csv, .xlsx or .xls passes
\* handleFile's type validation whatever its MIME type is; a delivered file
\* whose name ends in .csv was parsed by parseCSV and every other one as a
\* workbook.
C15_ExtensionAccepted ==
    /\ [][\A file \in Files :
            (/\ handleFile(file)
             /\ \/ endsWith(file.name, ".csv")
                \/ endsWith(file.name, ".xlsx")
                \/ endsWith(file.name, ".xls"))
            => alerts' = alerts /\ \E h \in handling' : h.file = file]_vars
    /\ [](\A d \in delivering :
            d.data = IF endsWith(d.file.name, ".csv") THEN parseCSV(d.file.text)
                     ELSE d.file.sheet)

(***************************************************************************)
(* SpecPreview: the DataPreview tab over a held dataset, with the queries  *)
(* asked of the same dataset                                               *)
(***************************************************************************)
PreviewInit ==
    /\ uploadedData \in PreviewDatasets
    /\ fileName = FileNameOf(uploadedData)
    /\ isProcessing = FALSE
    /\ handling = {}
    /\ delivering = {}
    /\ uploadProgress = 0
    /\ intervals = 0
    /\ alerts = 0
    /\ toasts = 1
    /\ started = 1
    /\ currentPage = 1
    /\ searchTerm = ""
    /\ sortColumn = ""
    /\ sortDirection = "asc"
    /\ showFilterDialog = FALSE
    /\ filters = <<>>
    /\ newFilter = NoFilter
    /\ query \in PreviewQueries
    /\ response = NoResponse
    /\ isLoading = FALSE
    /\ pending = {}
    /\ rng = 0
    /\ lastCall = NoCall
    /\ prevCall = NoCall

\* the dataset object once DataPreview has rendered with its new state:
\* filteredAndSortedData is recomputed, and an in-place operation on the
\* array object of the `data` prop would show in the dataset
Rendered(term, column, direction, conditions) ==
    uploadedData' =
        RowsAfter(filteredAndSortedData(uploadedData, term, column, direction,
                                        conditions),
                  uploadedData)

\* a render whose filteredAndSortedData dependencies are the same
RenderedAgain == Rendered(searchTerm, sortColumn, sortDirection, filters)

\* what the QueryInterface and Index keep while DataPreview is used
TableFrame ==
    /\ IndexFrame
    /\ UNCHANGED <<query, response, isLoading, pending, rng, lastCall, prevCall>>

\* the columns the table shows: columns.map(column => ...)
ColumnSet(data) == {columnsOf(data)[i] : i \in 1..Len(columnsOf(data))}

\* totalPages of the current render
totalPages ==
    totalPagesOf(filteredAndSortedData(uploadedData, searchTerm, sortColumn,
                                       sortDirection, filters))

\* onChange of the search box: setSearchTerm(e.target.value)
setSearchTerm(term) ==
    /\ term # searchTerm
    /\ searchTerm' = term
    /\ UNCHANGED <<currentPage, sortColumn, sortDirection, showFilterDialog,
                   filters, newFilter>>
    /\ Rendered(term, sortColumn, sortDirection, filters)
    /\ TableFrame

\* the Filter button: setShowFilterDialog(!showFilterDialog)
toggleFilterDialog ==
    /\ showFilterDialog' = ~showFilterDialog
    /\ UNCHANGED <<currentPage, searchTerm, sortColumn, sortDirection, filters,
                   newFilter>>
    /\ RenderedAgain
    /\ TableFrame

\* the three inputs of the filter dialog: setNewFilter({...newFilter, ...})
setNewFilter(edited) ==
    /\ showFilterDialog
    /\ edited # newFilter
    /\ newFilter' = edited
    /\ UNCHANGED <<currentPage, searchTerm, sortColumn, sortDirection,
                   showFilterDialog, filters>>
    /\ RenderedAgain
    /\ TableFrame

\* the Add Filter button of the dialog
addFilter ==
    /\ showFilterDialog
    /\ Len(filters) < MaxFilters
    /\ newFilter.column = "" \/ newFilter.value = "" \/ newFilter \in FilterConditions
    /\ IF newFilter.column # "" /\ newFilter.value # ""
       THEN /\ filters' = Append(filters, newFilter)
            /\ newFilter' = NoFilter
            /\ showFilterDialog' = FALSE
            /\ Rendered(searchTerm, sortColumn, sortDirection,
                        Append(filters, newFilter))
       ELSE /\ UNCHANGED <<filters, newFilter, showFilterDialog>>
            /\ RenderedAgain
    /\ UNCHANGED <<currentPage, searchTerm, sortColumn, sortDirection>>
    /\ TableFrame

\* the x of an active filter's badge
removeFilter(index) ==
    /\ index \in 1..Len(filters)
    /\ LET kept == [i \in 1..(Len(filters) - 1) |->
                        IF i < index THEN filters[i] ELSE filters[i + 1]]
       IN  /\ filters' = kept
           /\ Rendered(searchTerm, sortColumn, sortDirection, kept)
    /\ UNCHANGED <<currentPage, searchTerm, sortColumn, sortDirection,
                   showFilterDialog, newFilter>>
    /\ TableFrame

\* a faulty variant of handleSort: a new column keeps the direction of the
\* old one
handleSort_keepsDirection(column) ==
    /\ IF sortColumn = column
       THEN /\ sortDirection' = IF sortDirection = "asc" THEN "desc" ELSE "asc"
            /\ UNCHANGED sortColumn
            /\ Rendered(searchTerm, sortColumn,
                        IF sortDirection = "asc" THEN "desc" ELSE "asc", filters)
       ELSE /\ sortColumn' = column
            /\ UNCHANGED sortDirection
            /\ Rendered(searchTerm, column, sortDirection, filters)
    /\ UNCHANGED <<currentPage, searchTerm, showFilterDialog, filters, newFilter>>
    /\ TableFrame

\* a click on a column header
handleSort(column) ==
    /\ IF sortColumn = column
       THEN /\ sortDirection' = IF sortDirection = "asc" THEN "desc" ELSE "asc"
            /\ UNCHANGED sortColumn
            /\ Rendered(searchTerm, sortColumn,
                        IF sortDirection = "asc" THEN "desc" ELSE "asc", filters)
       ELSE /\ sortColumn' = column
            /\ sortDirection' = "asc"
            /\ Rendered(searchTerm, column, "asc", filters)
    /\ UNCHANGED <<currentPage, searchTerm, showFilterDialog, filters, newFilter>>
    /\ TableFrame

\* the Previous button, disabled on page 1
previousPage ==
    /\ currentPage # 1
    /\ currentPage' = IF currentPage - 1 > 1 THEN currentPage - 1 ELSE 1
    /\ UNCHANGED <<searchTerm, sortColumn, sortDirection, showFilterDialog,
                   filters, newFilter>>
    /\ RenderedAgain
    /\ TableFrame

\* the Next button, disabled when currentPage === totalPages
nextPage ==
    /\ currentPage # totalPages
    /\ currentPage' = IF totalPages < currentPage + 1 THEN totalPages
                      ELSE currentPage + 1
    /\ UNCHANGED <<searchTerm, sortColumn, sortDirection, showFilterDialog,
                   filters, newFilter>>
    /\ RenderedAgain
    /\ TableFrame

PreviewNext ==
    \/ \E term \in SearchTerms : setSearchTerm(term)
    \/ toggleFilterDialog
    \/ \E column \in FilterColumns \cap ColumnSet(uploadedData) :
            setNewFilter([newFilter EXCEPT !.column = column])
    \/ \E operator \in FilterOperators :
            setNewFilter([newFilter EXCEPT !.operator = operator])
    \/ \E value \in FilterValues : setNewFilter([newFilter EXCEPT !.value = value])
    \/ addFilter
    \/ \E index \in 1..Len(filters) : removeFilter(index)
    \/ \E column \in SortColumns \cap ColumnSet(uploadedData) : handleSort(column)
    \/ previousPage
    \/ nextPage
    \/ CallProcessQuery

SpecPreview == PreviewInit /\ [][PreviewNext]_vars

\* C1: the dataset is never mutated after upload: no DataPreview operation
\* (search, addFilter, removeFilter, handleSort, Previous/Next) and no
\* processQuery call changes the length, the order or a field value of the
\* array passed as `data`.
C1_DatasetNeverMutated == [][uploadedData' = uploadedData]_vars

\* a sorted, searched and filtered table on another page, after a
\* top/bottom query was answered from the same dataset
C1_Witness ==
    /\ sortColumn # ""
    /\ sortDirection = "desc"
    /\ searchTerm # ""
    /\ Len(filters) > 0
    /\ currentPage # 1
    /\ response.kind = "topBottom"

\* the rows the table pages through
DisplayedRows ==
    filteredAndSortedData(uploadedData, searchTerm, sortColumn, sortDirection,
                          filters).elems

\* the dataset rows that match the search term and satisfy every active
\* filter condition, in dataset order
MatchingRows ==
    SelectSeq(uploadedData.rows, LAMBDA row :
        /\ matchesSearch(row, searchTerm)
        /\ \A i \in 1..Len(filters) : satisfiesFilter(row, filters[i]))

\* C17: the displayed rows are exactly the dataset rows that match the
\* search term and satisfy every active filter condition (each such row as
\* often as the dataset holds it, in dataset order when no sort column is
\* set); the filtered row count never exceeds the total row count, adding a
\* filter never increases it and removing a filter never decreases it (the
\* count with any one of the active conditions taken away is at least the
\* count with all of them).
C17_FilteredRows ==
    /\ [](/\ Len(DisplayedRows) = Len(MatchingRows)
          /\ \A k \in 1..Len(MatchingRows) :
                Cardinality({i \in 1..Len(DisplayedRows) :
                                DisplayedRows[i] = MatchingRows[k]})
                    = Cardinality({i \in 1..Len(MatchingRows) :
                                    MatchingRows[i] = MatchingRows[k]})
          /\ sortColumn = "" => DisplayedRows = MatchingRows
          /\ Len(DisplayedRows) <= Len(uploadedData.rows))
    /\ [](\A index \in 1..Len(filters) :
            Len(DisplayedRows)
                <= Len(filteredAndSortedData(
                        uploadedData, searchTerm, sortColumn, sortDirection,
                        SubSeq(filters, 1, index - 1)
                            \o SubSeq(filters, index + 1, Len(filters))).elems))

\* two different filter conditions are active with a search term and a
\* sort column; each condition alone keeps rows that the two together do
\* not, and some row is displayed
C17_Witness ==
    /\ Len(filters) = 2
    /\ filters[1].column # filters[2].column
    /\ searchTerm # ""
    /\ sortColumn # ""
    /\ Len(DisplayedRows) > 0
    /\ \A i \in 1..2 :
            Len(DisplayedRows)
                < Len(filteredAndSortedData(uploadedData, searchTerm, sortColumn,
                                            sortDirection, <<filters[i]>>).elems)

\* the rows of the page the table shows
DisplayedPage ==
    paginatedData(filteredAndSortedData(uploadedData, searchTerm, sortColumn,
                                        sortDirection, filters), currentPage)

\* C22: after any sequence of Previous/Next clicks, search text changes,
\* addFilter, removeFilter and handleSort operations, currentPage satisfies
\* 1 <= currentPage <= max(1, totalPages), and whenever at least one row
\* matches the displayed page is not empty.
C22_PageInRange ==
    /\ 1 <= currentPage
    /\ currentPage <= (IF totalPages > 1 THEN totalPages ELSE 1)
    /\ Len(DisplayedRows) > 0 => Len(DisplayedPage) > 0

\* C23: the pages partition the filtered and sorted rows: page p of
\* 1..totalPages shows rows (p-1)*10+1 .. min(p*10, n) of the n rows, every
\* page holds at most 10 rows, only the last page may hold fewer, the pages
\* 1..totalPages concatenated are the filtered and sorted rows and
\* totalPages = ceil(n/10); the table shows the page of currentPage.
C23_PagesPartition ==
    LET shown == filteredAndSortedData(uploadedData, searchTerm, sortColumn,
                                       sortDirection, filters)
        n == Len(shown.elems)
        page(p) == paginatedData(shown, p)
        RECURSIVE concatenated(_)
        concatenated(p) == IF p = 0 THEN <<>> ELSE concatenated(p - 1) \o page(p)
    IN  /\ 10 * totalPages >= n
        /\ 10 * (totalPages - 1) < n
        /\ \A p \in 1..totalPages :
            /\ page(p) = SubSeq(shown.elems, (p - 1) * 10 + 1,
                                IF p * 10 < n THEN p * 10 ELSE n)
            /\ Len(page(p)) <= 10
            /\ Len(page(p)) >= 1
            /\ p < totalPages => Len(page(p)) = 10
        /\ concatenated(totalPages) = shown.elems
        /\ currentPage \in 1..totalPages => DisplayedPage = page(currentPage)

\* the table is sorted in descending order, has two pages and shows the
\* last one, which holds fewer than 10 rows and starts with the 11th row
C23_Witness ==
    /\ sortColumn # ""
    /\ sortDirection = "desc"
    /\ totalPages = 2
    /\ currentPage = 2
    /\ Len(DisplayedPage) \in 1..9
    /\ DisplayedPage[1] = DisplayedRows[11]

\* C24: handleSort(c) on the current sort column flips the direction and
\* leaves the column (two clicks restore the direction); on another column
\* it sets the column to c and the direction to 'asc'; it changes neither
\* the search term, the filters nor currentPage, and once a sort column is
\* set no operation returns sortColumn to ''.
C24_HandleSort ==
    /\ [](sortDirection \in {"asc", "desc"})
    /\ [][\A c \in SortColumns :
            handleSort(c) =>
                /\ IF sortColumn = c
                   THEN /\ sortColumn' = sortColumn
                        /\ sortDirection' \in {"asc", "desc"} \ {sortDirection}
                   ELSE /\ sortColumn' = c
                        /\ sortDirection' = "asc"
                /\ searchTerm' = searchTerm
                /\ filters' = filters
                /\ currentPage' = currentPage]_vars
    /\ [][sortColumn # "" => sortColumn' # ""]_vars

\* the header of age was clicked twice in a row on a searched and filtered
\* table: it is sorted by age in descending order
C24_Witness ==
    /\ sortColumn = "age"
    /\ sortDirection = "desc"
    /\ searchTerm # ""
    /\ Len(filters) > 0
    /\ uploadedData = Data(PeopleRows)

(***************************************************************************)
(* Properties of the query-answering functions (SpecQuery)                 *)
(***************************************************************************)
\* the latest call was processQuery on a dataset with at least one record
AskedProcessQuery ==
    /\ lastCall.fn = "processQuery"
    /\ ~lastCall.data.isNull
    /\ Len(lastCall.data.rows) > 0

AskedLower == toLowerCase(lastCall.query)

\* the column names of the dataset of the latest call
AskedColumns == {columnsOf(lastCall.data)[i] : i \in 1..Len(columnsOf(lastCall.data))}

\* a numeric column: some record holds a non-empty number in it
IsNumericColumn(data, c) == \E i \in 1..Len(data.rows) : isNumericCell(data.rows[i], c)

AskedNumericColumns == {c \in AskedColumns : IsNumericColumn(lastCall.data, c)}

\* the numeric columns whose name occurs in the query, in dataset column order
AskedNamedNumeric ==
    SelectSeq(columnsOf(lastCall.data),
              LAMBDA c : c \in AskedNumericColumns /\ includes(AskedLower, toLowerCase(c)))

HandlerOrder == <<"average", "count", "highest", "lowest", "correlation", "topBottom">>

HasKeyword(h) ==
    CASE h = "average" -> includes(AskedLower, "average") \/ includes(AskedLower, "mean")
      [] h = "count" -> includes(AskedLower, "how many") \/ includes(AskedLower, "count")
      [] h = "highest" -> \/ includes(AskedLower, "highest")
                          \/ includes(AskedLower, "maximum")
                          \/ includes(AskedLower, "max")
      [] h = "lowest" -> \/ includes(AskedLower, "lowest")
                         \/ includes(AskedLower, "minimum")
                         \/ includes(AskedLower, "min")
      [] h = "correlation" -> \/ includes(AskedLower, "correlation")
                              \/ includes(AskedLower, "correlate")
      [] h = "topBottom" -> includes(AskedLower, "top") \/ includes(AskedLower, "bottom")

CanAnswer(h) ==
    CASE h = "count" -> TRUE
      [] h = "correlation" -> Cardinality(AskedNumericColumns) >= 2
      [] OTHER -> Len(AskedNamedNumeric) > 0

KindsOf(h) ==
    CASE h = "count" -> {"countMatches", "countTotal"}
      [] h = "correlation" -> {"correlation", "specifyColumns"}
      [] OTHER -> {h}

\* the handlers, by position, whose keyword occurs and that can answer
Answering == {i \in 1..Len(HandlerOrder) :
                HasKeyword(HandlerOrder[i]) /\ CanAnswer(HandlerOrder[i])}

MockAverageQuery(q) ==
    LET lq == toLowerCase(q)
    IN  /\ includes(lq, "average") \/ includes(lq, "mean")
        /\ ~(includes(lq, "top") \/ includes(lq, "highest"))
        /\ ~(includes(lq, "trend") \/ includes(lq, "time"))

MostCommonValue(data, c) ==
    LET text(i) == String(Get(data.rows[i], c))
        occurrences(i) == Cardinality({j \in 1..Len(data.rows) : text(j) = text(i)})
        best == CHOOSE i \in 1..Len(data.rows) :
                    /\ \A j \in 1..Len(data.rows) : occurrences(j) <= occurrences(i)
                    /\ \A j \in 1..(i - 1) : occurrences(j) < occurrences(i)
    IN  text(best)

\* C4: for a non-empty dataset and a query asking which value of a named
\* column is most common, processQuery reports the most frequent value of
\* that column.
C4_MostCommonReported ==
    AskedProcessQuery =>
        \A c \in AskedColumns :
            lastCall.query = "Which " \o c \o " is most common?"
            => /\ lastCall.result.kind = "mostCommon"
               /\ lastCall.result.col = c
               /\ lastCall.result.value = MostCommonValue(lastCall.data, c)

\* C5: the response comes from the first handler, in the order average,
\* count, highest, lowest, correlation, top/bottom, whose keyword occurs in
\* the lowercased query and that can answer; with no such handler it is the
\* default help text quoting the query, data.length and the first three
\* column names.
C5_DispatchOrder ==
    AskedProcessQuery =>
        IF Answering # {}
        THEN LET first == CHOOSE i \in Answering : \A k \in Answering : i <= k
             IN  lastCall.result.kind \in KindsOf(HandlerOrder[first])
        ELSE LET cols == columnsOf(lastCall.data)
                 shown == IF Len(cols) < 3 THEN cols ELSE SubSeq(cols, 1, 3)
             IN  lastCall.result =
                    [kind |-> "default", query |-> lastCall.query,
                     n |-> Len(lastCall.data.rows), columns |-> join(shown, ", ")]

\* an average query that names no numeric column and is answered by the
\* count handler
C5_Witness ==
    /\ AskedProcessQuery
    /\ includes(AskedLower, "average")
    /\ Len(AskedNamedNumeric) = 0
    /\ lastCall.result.kind = "countTotal"

\* C6: for a non-empty dataset and any numeric column X, "What is the
\* average X?" is answered with the average of column X and of no other
\* column.
C6_AverageOfNamedColumn ==
    AskedProcessQuery =>
        \A c \in AskedNumericColumns :
            lastCall.query = "What is the average " \o c \o "?"
            => /\ lastCall.result.kind = "average"
               /\ lastCall.result.col = c

\* the numeric values column c holds, by row index
NumericValueAt(data, c) ==
    [i \in {j \in 1..Len(data.rows) : isNumericCell(data.rows[j], c)} |->
        Number(Get(data.rows[i], c)).n]

\* C7: for a non-empty dataset and any numeric column X, "What is the
\* highest X?" is answered with "The highest X is v", v the greatest numeric
\* value of column X, quoting the earliest row whose X value is v.
C7_HighestOfNamedColumn ==
    AskedProcessQuery =>
        \A c \in AskedNumericColumns :
            lastCall.query = "What is the highest " \o c \o "?"
            => LET at == NumericValueAt(lastCall.data, c)
                   row == CHOOSE i \in DOMAIN at :
                            /\ \A j \in DOMAIN at : at[j] <= at[i]
                            /\ \A j \in DOMAIN at : j < i => at[j] < at[i]
               IN  /\ lastCall.result.kind = "highest"
                   /\ lastCall.result.col = c
                   /\ lastCall.result.value = at[row]
                   /\ lastCall.result.found =
                        substring0(JSONstringify(lastCall.data.rows[row]), 100)

\* the count the top/bottom handler is asked for: the first integer written
\* in the query, 5 without one
AskedCount ==
    IF firstDigits(AskedLower) # "" THEN DigitsVal(firstDigits(AskedLower)) ELSE 5

\* the top/bottom listing of the latest response is a listing by column c:
\* min(N, numeric rows of c) entries, ordered, none beaten by an unlisted row
ListingBy(c) ==
    LET r == lastCall.result
        at == NumericValueAt(lastCall.data, c)
        k == Cardinality(DOMAIN at)
        top == includes(AskedLower, "top")
        vals == [i \in 1..Len(r.results) |-> NumberOfString(r.results[i].value).n]
        beats(x, y) == IF top THEN x > y ELSE x < y
        rowsWith(x) == Cardinality({i \in DOMAIN at : at[i] = x})
        listedWith(x) == Cardinality({i \in 1..Len(vals) : vals[i] = x})
        all == {at[i] : i \in DOMAIN at} \cup {vals[i] : i \in 1..Len(vals)}
    IN  /\ r.kind = "topBottom"
        /\ Len(r.results) = IF AskedCount < k THEN AskedCount ELSE k
        /\ \A i, j \in 1..Len(vals) : i < j => ~beats(vals[j], vals[i])
        /\ \A x \in all :
            /\ listedWith(x) <= rowsWith(x)
            /\ (\E i \in 1..Len(vals) : beats(x, vals[i])) => listedWith(x) = rowsWith(x)

\* a top/bottom query that no earlier handler takes
TopBottomAsked ==
    /\ AskedProcessQuery
    /\ HasKeyword("topBottom")
    /\ \A i \in Answering : HandlerOrder[i] = "topBottom"

C9_CountByValue ==
    AskedProcessQuery =>
        /\ \A c \in AskedColumns :
            lastCall.query = "How many " \o c \o " are made by Audi?"
            => /\ lastCall.result.kind = "countMatches"
               /\ lastCall.result.n =
                    Cardinality({i \in 1..Len(lastCall.data.rows) :
                        includes(toLowerCase(String(Get(lastCall.data.rows[i], c))),
                                 "audi")})
        /\ lastCall.result.kind \in {"countMatches", "countTotal"}
            => lastCall.result.n \in 0..Len(lastCall.data.rows)

\* what C10 says of the response to a correlation query
CorrelationAnswer ==
    /\ lastCall.result.kind = "correlation"
        => /\ Len(AskedNamedNumeric) >= 2
           /\ lastCall.result.col1 = AskedNamedNumeric[1]
           /\ lastCall.result.col2 = AskedNamedNumeric[2]
    /\ Len(AskedNamedNumeric) < 2 => lastCall.result = [kind |-> "specifyColumns"]

\* C10 (as stated): for a correlation query on a dataset with at least two
\* numeric columns, a correlation is computed only when at least two numeric
\* columns are named, and then of the first two in column order; with fewer
\* the response is the fixed message.
C10_CorrelationColumns ==
    (/\ AskedProcessQuery
     /\ HasKeyword("correlation")
     /\ Cardinality(AskedNumericColumns) >= 2)
    => CorrelationAnswer

\* C10 (amended): the same for a correlation query that none of the earlier
\* handlers (average, count, highest, lowest) answers.
C10_CorrelationColumnsUnlessTaken ==
    (/\ AskedProcessQuery
     /\ HasKeyword("correlation")
     /\ Cardinality(AskedNumericColumns) >= 2
     /\ \A i \in Answering : HandlerOrder[i] \in {"correlation", "topBottom"})
    => CorrelationAnswer

\* a correlation computed on a dataset with three numeric columns, for a
\* query that names two of them in the reverse of the column order
C10_Witness ==
    /\ AskedProcessQuery
    /\ lastCall.result.kind = "correlation"
    /\ Cardinality(AskedNumericColumns) = 3
    /\ Len(AskedNamedNumeric) = 2
    /\ lastCall.query = "What is the correlation between " \o AskedNamedNumeric[2]
                            \o " and " \o AskedNamedNumeric[1] \o "?"

\* C12: when the dataset is null or has no records, processQuery and
\* generateDataDrivenResponse return the fixed message "No data available to
\* analyze. Please upload a dataset first." for every query text; with a
\* null or empty dataset there is no record to read.
C12_NoDataMessage ==
    (/\ lastCall.fn \in {"processQuery", "generateDataDrivenResponse"}
     /\ (lastCall.data.isNull \/ Len(lastCall.data.rows) = 0))
    => /\ lastCall.result.kind = "noData"
       /\ lastCall.result.text
            = "No data available to analyze. Please upload a dataset first."
       /\ uploadedData = lastCall.data

\* both functions asked a question with a keyword of theirs about an array
\* without records
C12_Witness ==
    /\ prevCall.fn = "processQuery"
    /\ lastCall.fn = "generateDataDrivenResponse"
    /\ lastCall.data = Data(<<>>)
    /\ prevCall.data = Data(<<>>)
    /\ lastCall.query = "What is the average price?"
    /\ prevCall.result = NoDataMessage
    /\ lastCall.result = NoDataMessage

(***************************************************************************)
(* DataSummary: the analysis of the columns and the insights drawn from    *)
(* it.  A mean is kept as the sum and the number of its terms, a median as *)
(* twice its value, so that the comparisons stay within the integers.      *)
(***************************************************************************)
\* data.map(row => row[col]).filter(val => val != null && val !== '')
columnValues(data, col) ==
    SelectSeq([i \in 1..Len(data.rows) |-> Get(data.rows[i], col)],
              LAMBDA val : val.t \notin {"null", "undef"} /\ val # Str(""))

\* values.filter(val => !isNaN(parseFloat(val))).map(val => parseFloat(val))
numericValues(vals) ==
    LET kept == SelectSeq(vals, LAMBDA val : ~parseFloat(String(val)).nan)
    IN  [i \in 1..Len(kept) |-> parseFloat(String(kept[i])).n]

\* valueFrequency.set(val, (valueFrequency.get(val) || 0) + 1) on the
\* entries of the Map, which are kept in insertion order; keys are compared
\* as a Map compares them (30 and '30' are different keys)
mapSetCount(entries, val) ==
    IF \E i \in 1..Len(entries) : entries[i].key = val
    THEN LET at == CHOOSE i \in 1..Len(entries) : entries[i].key = val
         IN  [entries EXCEPT ![at].count = @ + 1]
    ELSE Append(entries, [key |-> val, count |-> 1])

\* values.forEach(val => valueFrequency.set(...)) from the k-th value on
RECURSIVE valueFrequency(_, _, _)
valueFrequency(vals, k, entries) ==
    IF k > Len(vals) THEN entries
    ELSE valueFrequency(vals, k + 1, mapSetCount(entries, vals[k]))

\* a faulty variant of mostCommon: among the most frequent values the one
\* met last
mostCommon_lastOnTies(entries) ==
    IF Len(entries) = 0 THEN Undefined
    ELSE entries[CHOOSE i \in 1..Len(entries) :
                    /\ \A j \in 1..Len(entries) : entries[j].count <= entries[i].count
                    /\ \A j \in (i + 1)..Len(entries) :
                            entries[j].count < entries[i].count].key

\* Array.from(valueFrequency.entries()).sort((a, b) => b[1] - a[1])[0]?.[0]
mostCommon(entries) ==
    LET sorted == ArraySortByKey([shared |-> FALSE, elems |-> entries],
                                 [i \in 1..Len(entries) |-> -entries[i].count])
    IN  IF Len(sorted.elems) = 0 THEN Undefined ELSE sorted.elems[1].key

\* twice the median of a non-empty list of numbers:
\* [...numericValues].sort((a, b) => a - b), then the middle element or the
\* mean of the two middle ones
median2(nums) ==
    LET sorted == ArraySortByKey([shared |-> FALSE, elems |-> nums], nums).elems
        n == Len(sorted)
    IN  IF n % 2 = 0 THEN sorted[n \div 2] + sorted[n \div 2 + 1]
        ELSE 2 * sorted[n \div 2 + 1]

\* data.find(row => parseFloat(row[col]) === x)
findRecord(data, col, x) ==
    LET hit(i) == parseFloat(String(Get(data.rows[i], col))) = Fin(x)
    IN  IF \E i \in 1..Len(data.rows) : hit(i)
        THEN data.rows[CHOOSE i \in 1..Len(data.rows) :
                            hit(i) /\ \A j \in 1..(i - 1) : ~hit(j)]
        ELSE <<>>

\* the ColumnStats record of one column; without numeric values min, max,
\* mean, median and extremeValues are undefined (hasNumbers is FALSE)
columnStat(data, col, vals, nums, entries) ==
    [name |-> col,
     type |-> IF 10 * Len(nums) > 7 * Len(vals) THEN "numeric"
              ELSE IF Len(nums) > 0 THEN "mixed" ELSE "text",
     hasNumbers |-> Len(nums) > 0,
     min |-> IF Len(nums) > 0 THEN MinOf(nums) ELSE 0,
     max |-> IF Len(nums) > 0 THEN MaxOf(nums) ELSE 0,
     sum |-> SumSeq(nums),
     count |-> Len(nums),
     median2 |-> IF Len(nums) > 0 THEN median2(nums) ELSE 0,
     uniqueValues |-> Cardinality({vals[i] : i \in 1..Len(vals)}),
     nullCount |-> Len(data.rows) - Len(vals),
     mostCommon |-> mostCommon(entries),
     sampleValues |-> [i \in 1..(IF Len(entries) < 5 THEN Len(entries) ELSE 5)
                          |-> entries[i].key],
     extremeValues |-> IF Len(nums) > 0
                       THEN <<findRecord(data, col, MinOf(nums)),
                              findRecord(data, col, MaxOf(nums))>>
                       ELSE <<>>]

\* columns.map(col => { ... }) of analysis
analysisColumnStats(data) ==
    [c \in 1..Len(columnsOf(data)) |->
        columnStat(data, columnsOf(data)[c],
                   columnValues(data, columnsOf(data)[c]),
                   numericValues(columnValues(data, columnsOf(data)[c])),
                   valueFrequency(columnValues(data, columnsOf(data)[c]), 1, <<>>))]

\* the analysis memo of DataSummary: null without data
analysis(data) ==
    IF data.isNull \/ Len(data.rows) = 0
    THEN [isNull |-> TRUE, totalRows |-> 0, totalColumns |-> 0,
          columnStats |-> <<>>, numericColumns |-> <<>>, textColumns |-> <<>>]
    ELSE LET columnStats_ == analysisColumnStats(data)
         IN  [isNull |-> FALSE,
              totalRows |-> Len(data.rows),
              totalColumns |-> Len(columnsOf(data)),
              columnStats |-> columnStats_,
              numericColumns |-> SelectSeq(columnStats_,
                                           LAMBDA col : col.type = "numeric"),
              textColumns |-> SelectSeq(columnStats_,
                                        LAMBDA col : col.type = "text")]

\* rows, `times` times over
RECURSIVE RepeatRows(_, _)
RepeatRows(rows, times) ==
    IF times = 0 THEN <<>> ELSE rows \o RepeatRows(rows, times - 1)

\* the analysis of the dataset that holds the rows analysed by `a` `times`
\* times over: the numbers of rows, of empty cells and of numeric values and
\* the sums are multiplied, every other field is the same
analysisOfCopies(a, times) ==
    LET copies(cols) ==
            [c \in 1..Len(cols) |->
                [cols[c] EXCEPT !.sum = @ * times, !.count = @ * times,
                                !.nullCount = @ * times]]
    IN  [isNull |-> a.isNull,
         totalRows |-> a.totalRows * times,
         totalColumns |-> a.totalColumns,
         columnStats |-> copies(a.columnStats),
         numericColumns |-> copies(a.numericColumns),
         textColumns |-> copies(a.textColumns)]

\* an insight: the words its text begins with and the number it quotes
Insight(text, n) == [text |-> text, n |-> n]

\* the insight on the size of the dataset, if any
sizeInsights(totalRows) ==
    IF totalRows > 50000 THEN <<Insight("Massive dataset scale", totalRows)>>
    ELSE IF totalRows > 10000 THEN <<Insight("Robust dataset size", totalRows)>>
    ELSE IF totalRows < 500 THEN <<Insight("Focused dataset", totalRows)>>
    ELSE <<>>

\* the insight on uniquenessRatio = avgUnique / totalRows, where avgUnique
\* is the mean of uniqueValues over the columns; without columns the ratio
\* is NaN and both comparisons fail
complexityInsights(totalRows, stats) ==
    LET sumUnique == SumSeq([c \in 1..Len(stats) |-> stats[c].uniqueValues])
    IN  IF Len(stats) > 0 /\ 10 * sumUnique > 8 * Len(stats) * totalRows
        THEN <<Insight("Exceptionally diverse data", 0)>>
        ELSE IF Len(stats) > 0 /\ 10 * sumUnique < Len(stats) * totalRows
        THEN <<Insight("Pattern-rich structure", 0)>>
        ELSE <<Insight("Balanced complexity", 0)>>

\* col.max != null && col.min != null && col.max / Math.max(col.min, 1) > 1000
extremeRange(col) ==
    col.hasNumbers /\ col.max > 1000 * (IF col.min > 1 THEN col.min ELSE 1)

\* !(!col.mean || !col.median) && Math.abs(col.mean - col.median) > col.mean * 0.3
potentialOutlier(col) ==
    LET twice == 2 * col.sum - col.count * col.median2
        distance == IF twice < 0 THEN -twice ELSE twice
    IN  /\ col.hasNumbers
        /\ col.sum # 0
        /\ col.median2 # 0
        /\ 10 * distance > 6 * col.sum

\* the insights on the numeric columns
rangeInsights(numericColumns) ==
    IF Len(numericColumns) > 0
    THEN (IF \E c \in 1..Len(numericColumns) : extremeRange(numericColumns[c])
          THEN <<Insight("Extreme value ranges detected", 0)>> ELSE <<>>)
         \o (IF \E c \in 1..Len(numericColumns) : potentialOutlier(numericColumns[c])
             THEN <<Insight("Asymmetric distributions identified", 0)>> ELSE <<>>)
    ELSE <<>>

\* the insight on completionRate, the percentage of columns without empty
\* cells; without columns the rate is NaN and every comparison fails
completenessInsights(stats) ==
    LET complete == Cardinality({c \in 1..Len(stats) : stats[c].nullCount = 0})
    IN  IF Len(stats) = 0 THEN <<>>
        ELSE IF complete = Len(stats)
        THEN <<Insight("Perfect data integrity", 100)>>
        ELSE IF 10 * complete > 9 * Len(stats)
        THEN <<Insight("High data quality", RoundDiv(100 * complete, Len(stats)))>>
        ELSE IF 10 * complete < 7 * Len(stats)
        THEN <<Insight("Selective data collection",
                       RoundDiv(100 * complete, Len(stats)))>>
        ELSE <<>>

\* the insights array before it is cut
insightsPushed(a) ==
    sizeInsights(a.totalRows)
        \o complexityInsights(a.totalRows, a.columnStats)
        \o rangeInsights(a.numericColumns)
        \o completenessInsights(a.columnStats)

\* a faulty variant of generateInsights: the array is returned whole
generateInsights_uncut(a) ==
    IF a.isNull THEN <<>> ELSE insightsPushed(a)

\* the generateInsights memo: insights.slice(0, 4)
generateInsights(a) ==
    IF a.isNull THEN <<>>
    ELSE ArraySlice0([shared |-> FALSE, elems |-> insightsPushed(a)], 4).elems

(***************************************************************************)
(* Dashboard: the statistics shown on the cards                            *)
(***************************************************************************)
\* Object.keys(data[0]).filter(key =>
\*     data.some(row => !isNaN(parseFloat(row[key]))))
statsNumericColumns(data) ==
    SelectSeq(columnsOf(data),
              LAMBDA key : \E i \in 1..Len(data.rows) :
                              ~parseFloat(String(Get(data.rows[i], key))).nan)

\* data.map(row => parseFloat(row[key]) || 0)
numericData(data, key) ==
    [i \in 1..Len(data.rows) |->
        LET x == parseFloat(String(Get(data.rows[i], key)))
        IN  IF x.nan THEN 0 ELSE x.n]

\* the stats memo of Dashboard: null without data; average.toFixed(2) and
\* max.toFixed(2) are kept in hundredths
statsOf(data) ==
    IF data.isNull \/ Len(data.rows) = 0
    THEN [isNull |-> TRUE, totalRows |-> 0, average |-> 0, maximum |-> 0,
          columns |-> 0]
    ELSE LET numericColumns == statsNumericColumns(data)
             list == IF Len(numericColumns) > 0
                     THEN numericData(data, numericColumns[1])
                     ELSE <<>>
         IN  [isNull |-> FALSE,
              totalRows |-> Len(data.rows),
              average |-> IF Len(list) > 0
                          THEN RoundDiv(100 * SumSeq(list), Len(list)) ELSE 0,
              maximum |-> IF Len(list) > 0 THEN 100 * MaxOf(list) ELSE 0,
              columns |-> Len(columnsOf(data))]

\* a value that counts as true in a condition: not undefined, null, '' or 0
truthy(v) ==
    CASE v.t = "num" -> v.n # 0
      [] v.t = "str" -> v.s # ""
      [] OTHER -> FALSE

\* keys.filter(key => !numericKeys.includes(key) && data.some(row => row[key]))
categoricalKeys(data) ==
    SelectSeq(columnsOf(data),
              LAMBDA key :
                /\ \A n \in 1..Len(statsNumericColumns(data)) :
                        statsNumericColumns(data)[n] # key
                /\ \E i \in 1..Len(data.rows) : truthy(Get(data.rows[i], key)))

\* data.forEach(row => { aggregated[category] = (aggregated[category] || 0)
\* + value }) from the k-th row on, with value = parseFloat(row[valueKey])
\* || 0; the object's keys are the categories as property names
RECURSIVE aggregated(_, _, _, _, _)
aggregated(data, k, categoryKey, valueKey, object) ==
    IF k > Len(data.rows) THEN object
    ELSE LET category == String(Get(data.rows[k], categoryKey))
             value == numericData(data, valueKey)[k]
         IN  aggregated(data, k + 1, categoryKey, valueKey,
                        SetKey(object, category,
                               Num(Get(object, category).n + value)))

\* data.forEach(row => { counts[category] = (counts[category] || 0) + 1 })
\* from the k-th row on
RECURSIVE counts(_, _, _, _)
counts(data, k, categoryKey, object) ==
    IF k > Len(data.rows) THEN object
    ELSE LET category == String(Get(data.rows[k], categoryKey))
         IN  counts(data, k + 1, categoryKey,
                    SetKey(object, category, Num(Get(object, category).n + 1)))

\* Object.entries(object).slice(0, n).map(([name, value]) => ({name, value}))
entriesSlice(object, n) ==
    [i \in 1..(IF Len(object) < n THEN Len(object) ELSE n) |->
        [name |-> object[i].k, value |-> object[i].v.n]]

\* pieData of chartData
chartDataPie(data) ==
    IF Len(categoricalKeys(data)) > 0
    THEN entriesSlice(counts(data, 1, categoricalKeys(data)[1], <<>>), 6)
    ELSE <<>>

\* the chartData memo of Dashboard
chartData(data) ==
    IF data.isNull \/ Len(data.rows) = 0
    THEN [bar |-> <<>>, pie |-> <<>>, line |-> <<>>, scatter |-> <<>>]
    ELSE LET numericKeys == statsNumericColumns(data)
             shown(n) == IF Len(data.rows) < n THEN Len(data.rows) ELSE n
         IN  [bar |-> IF Len(categoricalKeys(data)) > 0 /\ Len(numericKeys) > 0
                      THEN entriesSlice(
                              aggregated(data, 1, categoricalKeys(data)[1],
                                         numericKeys[1], <<>>), 10)
                      ELSE <<>>,
              pie |-> chartDataPie(data),
              line |-> IF Len(numericKeys) > 0
                       THEN [i \in 1..shown(20) |->
                                [index |-> i,
                                 value |-> numericData(data, numericKeys[1])[i]]]
                       ELSE <<>>,
              scatter |-> IF Len(numericKeys) >= 2
                          THEN [i \in 1..shown(50) |->
                                   [x |-> numericData(data, numericKeys[1])[i],
                                    y |-> numericData(data, numericKeys[2])[i]]]
                          ELSE <<>>]

(***************************************************************************)
(* SpecAnalysis: the functions that analyse a held dataset (the Pearson     *)
(* correlation of QueryInterface, the statistics of DataSummary and of      *)
(* Dashboard, the CSV parser of FileUpload), applied to drawn inputs        *)
(***************************************************************************)
\* a workbook with a constant column and a column of numbers and text
TeamRows ==
    << Row(<<"team", "points", "level", "extra">>,
           <<Str("red"), Num(4), Num(3), Str("x")>>),
       Row(<<"team", "points", "level", "extra">>,
           <<Str("blue"), Num(9), Num(3), Num(5)>>),
       Row(<<"team", "points", "level", "extra">>,
           <<Str("red"), Num(1), Num(3), Num(7)>>),
       Row(<<"team", "points", "level", "extra">>,
           <<Str("blue"), Num(6), Num(3), Num(2)>>) >>

AnalysisDatasets ==
    {NullData, Data(<<>>), Data(CarsRows), Data(PeopleRows), Data(SalesRows),
     Data(WeatherRows), Data(TeamRows)}

\* a ledger whose amounts span four orders of magnitude, with a column that
\* holds no value and two items equally frequent
LedgerRows ==
    << Row(<<"item", "amount", "note">>, <<Str("pen"), Num(1), Str("")>>),
       Row(<<"item", "amount", "note">>, <<Str("ink"), Num(2), Null>>),
       Row(<<"item", "amount", "note">>, <<Str("ink"), Num(3), Str("")>>),
       Row(<<"item", "amount">>, <<Str("pen"), Num(2000)>>) >>

\* the visits of seven towns, the last of them visited twice
TownRows ==
    [i \in 1..8 |->
        Row(<<"town", "visitors">>,
            <<Str(<<"ayr", "bath", "cork", "deal", "ely", "fife", "hull", "hull">>[i]),
              Num(i)>>)]

\* the datasets the components are rendered with besides those above: the
\* ledger, whose sums of squares would leave the 32-bit integers, a sheet
\* whose first row has no column and the towns
SummaryDatasets ==
    {Data(LedgerRows), Data(<<Row(<<>>, <<>>)>>), Data(TownRows)}

\* generateInsights is also applied to the analysis of larger datasets: the
\* held rows this many times over
InsightCopies == {2, 200, 5000, 20000}

\* the column names calculateCorrelation is applied to: the columns of the
\* dataset and one it does not have
CorrelationColumns(data) ==
    IF data.isNull \/ Len(data.rows) = 0 THEN {"price", "hp"}
    ELSE {columnsOf(data)[i] : i \in 1..Len(columnsOf(data))} \cup {"absent"}

\* the texts parseCSV is applied to: people.csv; a header line only, with
\* and without line end; lines shorter and longer than the header; CRLF line
\* ends; the empty text; a repeated and two numeric header names; a blank
\* first line
CSVTexts ==
    {PeopleCSV,
     "name,age\n",
     "name,age",
     "a,b,c\n1\n1,2,3,4\n",
     "a,b\r\n1,2\r\n\r\n3,4",
     "",
     "id,id,2,1\nx,y,p,q\n",
     " \nx\n"}

\* an application of an analysis function as the log keeps it
Applied(fn, args, data, result) ==
    [fn |-> fn, args |-> args, data |-> data, result |-> result]

AnalysisInit ==
    /\ uploadedData \in AnalysisDatasets \cup SummaryDatasets
    /\ fileName = FileNameOf(uploadedData)
    /\ isProcessing = FALSE
    /\ handling = {}
    /\ delivering = {}
    /\ uploadProgress = 0
    /\ intervals = 0
    /\ alerts = 0
    /\ toasts = 0
    /\ started = 0
    /\ currentPage = 1
    /\ searchTerm = ""
    /\ sortColumn = ""
    /\ sortDirection = "asc"
    /\ showFilterDialog = FALSE
    /\ filters = <<>>
    /\ newFilter = NoFilter
    /\ query = ""
    /\ response = NoResponse
    /\ isLoading = FALSE
    /\ pending = {}
    /\ rng = 0
    /\ lastCall = NoCall
    /\ prevCall = NoCall

\* an analysis function reads its inputs and changes no state of the page
AnalysisFrame ==
    /\ QueryFrame
    /\ UNCHANGED <<uploadedData, response, rng>>

\* calculateCorrelation(col1, col2) over the `data` prop
CallCalculateCorrelation(col1, col2) ==
    /\ lastCall' = Applied("calculateCorrelation", <<col1, col2>>, uploadedData,
                           calculateCorrelation(col1, col2))
    /\ prevCall' = lastCall
    /\ AnalysisFrame

\* data = parseCSV(text) of handleFile, for the text of a file
CallParseCSV(text) ==
    /\ lastCall' = Applied("parseCSV", <<text>>, uploadedData, parseCSV(text))
    /\ prevCall' = lastCall
    /\ AnalysisFrame

\* DataSummary renders with the `data` prop: the analysis and
\* generateInsights memos are computed
RenderDataSummary ==
    /\ lastCall' = Applied("DataSummary", <<>>, uploadedData,
                           [analysis |-> analysis(uploadedData),
                            insights |-> generateInsights(analysis(uploadedData))])
    /\ prevCall' = lastCall
    /\ AnalysisFrame

\* generateInsights for the analysis of `times` copies of the held rows
CallGenerateInsights(times) ==
    /\ lastCall' = Applied("generateInsights", <<times>>, uploadedData,
                           generateInsights(
                               analysisOfCopies(analysis(uploadedData), times)))
    /\ prevCall' = lastCall
    /\ AnalysisFrame

\* Dashboard renders with the `data` prop: the stats and chartData memos
\* are computed
RenderDashboard ==
    /\ lastCall' = Applied("Dashboard", <<>>, uploadedData,
                           [stats |-> statsOf(uploadedData),
                            chartData |-> chartData(uploadedData)])
    /\ prevCall' = lastCall
    /\ AnalysisFrame

AnalysisNext ==
    \/ \E text \in CSVTexts : CallParseCSV(text)
    \/ /\ uploadedData \in AnalysisDatasets
       /\ \E col1 \in CorrelationColumns(uploadedData) :
          \E col2 \in CorrelationColumns(uploadedData) :
                CallCalculateCorrelation(col1, col2)
    \/ RenderDataSummary
    \/ \E times \in InsightCopies : CallGenerateInsights(times)
    \/ RenderDashboard

SpecAnalysis == AnalysisInit /\ [][AnalysisNext]_vars

\* the rows of a dataset that hold a non-null numeric value in both columns
PairedRows(data, col1, col2) ==
    {i \in 1..Len(data.rows) :
        \A c \in {col1, col2} :
            /\ Get(data.rows[i], c).t \notin {"null", "undef"}
            /\ ~Number(Get(data.rows[i], c)).nan}

\* the column holds one and the same number in all of the given rows
ConstantOver(data, col, rows) ==
    \A i \in rows : \A j \in rows :
        Number(Get(data.rows[i], col)).n = Number(Get(data.rows[j], col)).n

\* two results of calculateCorrelation are the same number
SameCorrelation(a, b) ==
    /\ a.zero = b.zero
    /\ a.num = b.num
    /\ a.sq1 * a.sq2 = b.sq1 * b.sq2

RecordLines(text) ==
    LET lines == split(text, "\n")
    IN  SelectSeq(SubSeq(lines, 2, Len(lines)), LAMBDA line : trim(line) # "")

\* the header names: the cells of the first line
HeaderNames(text) == csvCells(split(text, "\n")[1])

\* C16: parseCSV returns one record per non-blank line after the first line,
\* in file order; every record has exactly the column set of the header
\* names of the first line; a column takes the value the line has at the
\* header's position ('' when the line is shorter), values beyond the last
\* header are dropped; a text with only a header line yields no record.
C16_ParseCSVShape ==
    lastCall.fn = "parseCSV" =>
        LET text == lastCall.args[1]
            rows == lastCall.result
            headers == HeaderNames(text)
            lines == RecordLines(text)
        IN  /\ Len(rows) = Len(lines)
            /\ \A i \in 1..Len(rows) :
                LET values == csvCells(lines[i])
                IN  /\ {rows[i][j].k : j \in 1..Len(rows[i])}
                            = {headers[j] : j \in 1..Len(headers)}
                    /\ Len(rows[i]) = Cardinality({headers[j] : j \in 1..Len(headers)})
                    /\ \A j \in 1..Len(headers) :
                        (\A k \in (j + 1)..Len(headers) : headers[k] # headers[j])
                        => Get(rows[i], headers[j])
                              = Str(IF j <= Len(values) THEN values[j] ELSE "")
            /\ Len(split(text, "\n")) = 1 => rows = <<>>

\* a text whose two records come from a line with one value and a line with
\* four values under three headers, parsed after a text with a blank line
C16_Witness ==
    /\ lastCall.fn = "parseCSV"
    /\ prevCall.fn = "parseCSV"
    /\ prevCall.args[1] = PeopleCSV
    /\ Len(prevCall.result) = 3
    /\ Len(HeaderNames(lastCall.args[1])) = 3
    /\ Len(lastCall.result) = 2
    /\ Get(lastCall.result[1], "c") = Str("")
    /\ Len(lastCall.result[2]) = 3

\* the cells of a column, row by row
ColumnCells(data, col) == [i \in 1..Len(data.rows) |-> Get(data.rows[i], col)]

\* a cell that is null, undefined or ''
IsEmptyCell(v) == v.t \in {"null", "undef"} \/ v = Str("")

\* the number of cells that hold the value
Occurrences(cells, v) == Cardinality({i \in 1..Len(cells) : cells[i] = v})

\* C18: for every column, DataSummary's mostCommon is a non-empty value of
\* the column that occurs at least as often as every other non-empty value,
\* and on ties the one that occurs first in the dataset; it is undefined
\* exactly when the column has no non-empty value; nullCount is the number
\* of rows whose cell is null, undefined or '', and uniqueValues never
\* exceeds totalRows - nullCount.
C18_MostCommonAndCounts ==
    (lastCall.fn = "DataSummary" /\ ~lastCall.result.analysis.isNull) =>
        LET data == lastCall.data
            a == lastCall.result.analysis
        IN  /\ a.totalRows = Len(data.rows)
            /\ Len(a.columnStats) = Len(columnsOf(data))
            /\ \A c \in 1..Len(a.columnStats) :
                LET col == a.columnStats[c]
                    cells == ColumnCells(data, columnsOf(data)[c])
                    present == {i \in 1..Len(cells) : ~IsEmptyCell(cells[i])}
                IN  /\ col.name = columnsOf(data)[c]
                    /\ (col.mostCommon = Undefined) <=> (present = {})
                    /\ present # {} =>
                        \E first \in present :
                            /\ cells[first] = col.mostCommon
                            /\ \A j \in 1..(first - 1) : cells[j] # col.mostCommon
                            /\ \A j \in present :
                                /\ Occurrences(cells, cells[j])
                                        <= Occurrences(cells, col.mostCommon)
                                /\ Occurrences(cells, cells[j])
                                        = Occurrences(cells, col.mostCommon)
                                    => first <= j
                    /\ col.nullCount
                            = Cardinality({i \in 1..Len(cells) : IsEmptyCell(cells[i])})
                    /\ col.uniqueValues <= a.totalRows - col.nullCount

\* DataSummary has analysed a dataset with a column whose two most frequent
\* values occur equally often, the second of them first in the alphabet, and
\* a column without any value
C18_Witness ==
    /\ lastCall.fn = "DataSummary"
    /\ ~lastCall.result.analysis.isNull
    /\ \E c \in 1..Len(lastCall.result.analysis.columnStats) :
        LET col == lastCall.result.analysis.columnStats[c]
            cells == ColumnCells(lastCall.data, col.name)
        IN  \E j \in 1..Len(cells) :
                /\ ~IsEmptyCell(cells[j])
                /\ cells[j] # col.mostCommon
                /\ Occurrences(cells, cells[j]) = Occurrences(cells, col.mostCommon)
                /\ localeCompare(String(cells[j]), String(col.mostCommon)) < 0
    /\ \E c \in 1..Len(lastCall.result.analysis.columnStats) :
        LET col == lastCall.result.analysis.columnStats[c]
        IN  /\ col.mostCommon = Undefined
            /\ col.nullCount = lastCall.result.analysis.totalRows
            /\ col.uniqueValues = 0

\* the insights the last rendering of DataSummary or application of
\* generateInsights returned
InsightsReturned ==
    IF lastCall.fn = "DataSummary" THEN lastCall.result.insights ELSE lastCall.result

\* the place of an insight in the order of generation: size, complexity,
\* extreme ranges, asymmetric distributions, completeness
InsightRank(insight) ==
    CASE insight.text \in {"Massive dataset scale", "Robust dataset size",
                           "Focused dataset"} -> 1
      [] insight.text \in {"Exceptionally diverse data", "Pattern-rich structure",
                           "Balanced complexity"} -> 2
      [] insight.text = "Extreme value ranges detected" -> 3
      [] insight.text = "Asymmetric distributions identified" -> 4
      [] OTHER -> 5

\* C19: for every non-empty dataset generateInsights returns at least 1 and
\* at most 4 insights, in the order of generation (size, complexity, extreme
\* ranges, asymmetric distributions, completeness), exactly one of them a
\* complexity insight; the analysis it is given for two copies of the rows
\* is the analysis of the rows written twice.
C19_InsightsBounded ==
    (/\ lastCall.fn \in {"DataSummary", "generateInsights"}
     /\ ~lastCall.data.isNull
     /\ Len(lastCall.data.rows) > 0) =>
        LET r == InsightsReturned
        IN  /\ 1 <= Len(r)
            /\ Len(r) <= 4
            /\ \A i \in 1..Len(r) : \A j \in (i + 1)..Len(r) :
                    InsightRank(r[i]) < InsightRank(r[j])
            /\ Cardinality({i \in 1..Len(r) : InsightRank(r[i]) = 2}) = 1
            /\ (lastCall.fn = "generateInsights" /\ lastCall.args[1] = 2) =>
                    analysisOfCopies(analysis(lastCall.data), 2)
                        = analysis(Data(RepeatRows(lastCall.data.rows, 2)))

\* DataSummary rendered a dataset for which five insights are generated: the
\* four returned end with the asymmetric distributions and the completeness
\* insight is cut
C19_Witness ==
    /\ lastCall.fn = "DataSummary"
    /\ ~lastCall.result.analysis.isNull
    /\ Len(insightsPushed(lastCall.result.analysis)) = 5
    /\ Len(lastCall.result.insights) = 4
    /\ lastCall.result.insights[1].text = "Focused dataset"
    /\ lastCall.result.insights[4].text = "Asymmetric distributions identified"

\* the columns of the first row in which some row holds a numeric value
ColumnsWithNumbers(data) ==
    SelectSeq(columnsOf(data),
              LAMBDA col : Len(numericValues(ColumnCells(data, col))) > 0)

\* C20: the Maximum card of Dashboard shows the greatest numeric value found
\* in the first numeric column of the dataset and the Average card the mean
\* of the numeric values of that column (both printed with two decimals);
\* with no numeric column both show 0.
C20_CardsOfFirstNumericColumn ==
    (lastCall.fn = "Dashboard" /\ ~lastCall.result.stats.isNull) =>
        LET data == lastCall.data
            shown == lastCall.result.stats
            found == numericValues(ColumnCells(data, ColumnsWithNumbers(data)[1]))
        IN  IF Len(ColumnsWithNumbers(data)) = 0
            THEN shown.maximum = 0 /\ shown.average = 0
            ELSE /\ shown.maximum = 100 * MaxOf(found)
                 /\ shown.average = RoundDiv(100 * SumSeq(found), Len(found))

\* C21: the pie chart data of Dashboard holds the top categories of the
\* first categorical column: at most 6 entries (all categories when there
\* are no more than 6), each a distinct category with the number of its
\* records, and no omitted category has more records than an included one.
C21_PieTopCategories ==
    (/\ lastCall.fn = "Dashboard"
     /\ ~lastCall.result.stats.isNull
     /\ Len(categoricalKeys(lastCall.data)) > 0) =>
        LET data == lastCall.data
            pie == lastCall.result.chartData.pie
            cells == ColumnCells(data, categoricalKeys(data)[1])
            categories == {String(cells[i]) : i \in 1..Len(cells)}
            records(name) ==
                Cardinality({i \in 1..Len(cells) : String(cells[i]) = name})
            included == {pie[e].name : e \in 1..Len(pie)}
        IN  /\ Len(pie) <= 6
            /\ Len(pie) = (IF Cardinality(categories) < 6
                           THEN Cardinality(categories) ELSE 6)
            /\ Cardinality(included) = Len(pie)
            /\ \A e \in 1..Len(pie) :
                    /\ pie[e].name \in categories
                    /\ pie[e].value = records(pie[e].name)
            /\ \A name \in categories \ included :
                    \A e \in 1..Len(pie) : records(name) <= pie[e].value

(***************************************************************************)
(* SpecAsk: one mounted QueryInterface (the processQuery version) over a   *)
(* held dataset: the text box, the sample queries, the Send button and the *)
(* timer handleQuery waits on.  The log keeps the edits of the text box,   *)
(* the calls of handleQuery and the calls of processQuery.                 *)
(***************************************************************************)
AskDatasets == {Data(CarsRows), Data(PeopleRows)}

\* the texts typed into the text box
AskTexts == {"", " \n", "What is the average price?", "Show me the top 2 hp"}

\* the sample queries clicked
AskSamples ==
    {"What is the correlation between age and income?",
     "What are the top 5 products by sales?"}

AskInit ==
    /\ uploadedData \in AskDatasets
    /\ fileName = FileNameOf(uploadedData)
    /\ isProcessing = FALSE
    /\ handling = {}
    /\ delivering = {}
    /\ uploadProgress = 0
    /\ intervals = 0
    /\ alerts = 0
    /\ toasts = 1
    /\ started = 1
    /\ currentPage = 1
    /\ searchTerm = ""
    /\ sortColumn = ""
    /\ sortDirection = "asc"
    /\ showFilterDialog = FALSE
    /\ filters = <<>>
    /\ newFilter = NoFilter
    /\ query = ""
    /\ response = NoResponse
    /\ isLoading = FALSE
    /\ pending = {}
    /\ rng = 0
    /\ lastCall = NoCall
    /\ prevCall = NoCall

\* what Index, DataPreview and Math.random keep while QueryInterface is used
AskFrame ==
    /\ IndexFrame
    /\ PreviewFrame
    /\ UNCHANGED rng

\* onChange of the text box: setQuery(e.target.value)
setQuery(text) ==
    /\ text # query
    /\ query' = text
    /\ prevCall' = lastCall
    /\ lastCall' = Call("setQuery", text, uploadedData, NoResponse)
    /\ UNCHANGED <<uploadedData, response, isLoading, pending>>
    /\ AskFrame

\* a click on a sample query: setQuery(sampleQuery)
handleSampleQueryClick(sampleQuery) ==
    /\ query' = sampleQuery
    /\ prevCall' = lastCall
    /\ lastCall' = Call("handleSampleQueryClick", sampleQuery, uploadedData,
                        NoResponse)
    /\ UNCHANGED <<uploadedData, response, isLoading, pending>>
    /\ AskFrame

\* a faulty variant of SendEnabled: the button is not disabled while loading
SendEnabled_whileLoading == trim(query) # ""

\* the Send Query button: disabled={isLoading || !query.trim()}
SendEnabled == ~isLoading /\ trim(query) # ""

\* handleQuery up to its await: nothing for a blank query; otherwise
\* isLoading is set and the call waits on its timer, holding the `query` and
\* `data` of the render it was created in
handleQuery ==
    IF trim(query) = ""
    THEN UNCHANGED vars
    ELSE /\ isLoading' = TRUE
         /\ pending' = pending \cup
                {[id |-> Cardinality(pending) + 1, query |-> query,
                  data |-> uploadedData]}
         /\ prevCall' = lastCall
         /\ lastCall' = Call("handleQuery", query, uploadedData, NoResponse)
         /\ UNCHANGED <<uploadedData, query, response>>
         /\ AskFrame

\* a faulty variant of handleQueryResumed: processQuery is given the text
\* the box holds when the timer fires
handleQueryResumed_readsTextBox(call) ==
    /\ call \in pending
    /\ response' = processQuery(query, call.data)
    /\ uploadedData' = dataAfterProcessQuery(query, uploadedData)
    /\ isLoading' = FALSE
    /\ pending' = pending \ {call}
    /\ prevCall' = lastCall
    /\ lastCall' = Call("processQuery", query, call.data, response')
    /\ UNCHANGED query
    /\ AskFrame

\* handleQuery after its await, when the timer of 800 ms has fired:
\* setResponse(processQuery(query, data)); setIsLoading(false)
handleQueryResumed(call) ==
    /\ call \in pending
    /\ response' = processQuery(call.query, call.data)
    /\ uploadedData' = dataAfterProcessQuery(call.query, uploadedData)
    /\ isLoading' = FALSE
    /\ pending' = pending \ {call}
    /\ prevCall' = lastCall
    /\ lastCall' = Call("processQuery", call.query, call.data, response')
    /\ UNCHANGED query
    /\ AskFrame

\* handleQuery runs on a click of the Send Query button; it is also applied
\* to a blank query, the case its first statement returns on
AskNext ==
    \/ \E text \in AskTexts : setQuery(text)
    \/ \E sampleQuery \in AskSamples : handleSampleQueryClick(sampleQuery)
    \/ (SendEnabled \/ trim(query) = "") /\ handleQuery
    \/ \E call \in pending : handleQueryResumed(call)

SpecAsk == AskInit /\ [][AskNext]_vars

\* setTimeout(resolve, 800): the timer of a waiting handleQuery call fires and
\* the call leaves the waiting ones; handleQueryResumed is the only step of
\* AskNext that does this, and it can be taken whenever a call is waiting
timerFires == \E call \in pending : pending' = pending \ {call}

SpecAskLive == SpecAsk /\ WF_pending(timerFires)

\* C25: handleQuery with a blank (empty or whitespace-only) query changes no
\* state; with a non-blank query isLoading becomes true, at most one query
\* is in flight at any time, the response is eventually set exactly once to
\* processQuery's result (only the step that ends the loading sets it, and
\* it takes the one waiting call away), and isLoading then returns to false.
C25_OneQueryInFlight ==
    /\ [](Cardinality(pending) <= 1)
    /\ [](isLoading <=> pending # {})
    /\ [][(trim(query) = "" /\ ~isLoading) =>
            /\ isLoading' = isLoading
            /\ pending' = pending
            /\ response' = response
            /\ uploadedData' = uploadedData]_vars
    /\ [][(handleQuery /\ trim(query) # "") =>
            /\ isLoading'
            /\ Cardinality(pending') = Cardinality(pending) + 1
            /\ response' = response]_vars
    /\ [][(response' # response \/ (isLoading /\ ~isLoading')) =>
            /\ isLoading
            /\ ~isLoading'
            /\ pending' = {}
            /\ \E call \in pending :
                    response' = processQuery(call.query, call.data)]_vars
    /\ isLoading ~> ~isLoading

\* a second query was answered after the first one, and the text box was
\* then made blank
C25_Witness ==
    /\ ~isLoading
    /\ pending = {}
    /\ trim(query) = ""
    /\ query # ""
    /\ prevCall.fn = "processQuery"
    /\ lastCall.fn = "setQuery"
    /\ response = prevCall.result
    /\ response = processQuery(prevCall.query, uploadedData)
    /\ response.kind # "default"

\* C26: the response handleQuery stores after its delay is processQuery
\* applied to the query text as it was when Send was pressed: the waiting
\* call holds that text, editing the text box or clicking a sample query
\* while the request is loading changes neither the waiting call nor the
\* response, and clicking a sample query only fills the text box.
C26_ResponseOfSentQuery ==
    /\ [][(~isLoading /\ isLoading') =>
            \A call \in pending' :
                call.query = query /\ call.data = uploadedData]_vars
    /\ [][(isLoading /\ isLoading') =>
            pending' = pending /\ response' = response]_vars
    /\ [][\A call \in pending :
            handleQueryResumed(call) =>
                response' = processQuery(call.query, call.data)]_vars
    /\ [][\A sampleQuery \in AskSamples :
            handleSampleQueryClick(sampleQuery) =>
                /\ query' = sampleQuery
                /\ isLoading' = isLoading
                /\ pending' = pending
                /\ response' = response]_vars

\* a sample query was clicked while a request was loading, and the response
\* then stored is the one for the text that was sent, which differs from the
\* one for the text in the box
C26_Witness ==
    /\ ~isLoading
    /\ lastCall.fn = "processQuery"
    /\ prevCall.fn = "handleSampleQueryClick"
    /\ query = prevCall.query
    /\ lastCall.query # query
    /\ response = processQuery(lastCall.query, uploadedData)
    /\ response # processQuery(query, uploadedData)

====
